---- MODULE Spec2Model ----
(***************************************************************************)
(* The Beans puzzle (scripts.js of the Beans game): generation of a        *)
(* solution, growth of the coloured regions from it, the uniqueness loop   *)
(* of initializeGame and the rule check of checkSolution.                  *)
(*                                                                         *)
(* The program fixes gridSize = 8.  The region growth of an 8x8 board has  *)
(* far too many outcomes to enumerate, so the pipeline is explored on the  *)
(* board sizes of BoardSizes; every definition below is written for an     *)
(* arbitrary gridSize and is the source's code with 8 replaced by          *)
(* gridSize.  The only literal of the source that is tied to the size 8 is *)
(* the fallback pattern, see generateFallbackSolution.                     *)
(***************************************************************************)
EXTENDS Integers, Sequences, FiniteSets, TLC

VARIABLES
    gridSize,        \* let gridSize
    pc,              \* position of the running handler
    solution,        \* let solution: sequence of [row, col]
    attempts,        \* generateValidSolution: let attempts
    regions,         \* let regions: cell index -> region id, -1 = unassigned
    queues,          \* generateRegionsFromSolution: const queues
    unassignedCount, \* generateRegionsFromSolution: let unassignedCount
    addedThisRound,  \* generateRegionsFromSolution: let addedThisRound
    regionIndex,     \* generateRegionsFromSolution: for-loop variable
    attemptNumber,   \* generateRegionsFromSolution: parameter (recursion depth)
    solutionCount,   \* initializeGame: const solutionCount
    beansPlaced,     \* let beansPlaced
    xMarkers,        \* let xMarkers
    autoXMarkers,    \* let autoXMarkers
    gameActive,      \* let gameActive
    autoFillChecked, \* autoFillXCheckbox.checked
    errors,          \* checkSolution: let errors
    csPlacedBeans,   \* countSolutions: the array placedBeans handed to solve
    csUsedCols,      \* countSolutions: the Set usedCols handed to solve
    csUsedRegions,   \* countSolutions: the Set usedRegions handed to solve
    now,             \* Date.now(), in units of 1/TicksPerSecond second
    startTime,       \* let startTime
    timerInterval,   \* let timerInterval: the id setInterval returned, or null
    intervals,       \* the browser's list of active intervals (their ids)
    timerText,       \* timerElement.textContent
    message,         \* messageElement: textContent and the classes of className
    timeouts,        \* the callbacks handed to setTimeout that have not run yet
    ivRow, ivCol, ivBeans, ivResult,  \* one call of isValidPlacement: arguments and result
    rcRegionNumber, rcResult          \* one call of isRegionConnected: argument and result

vars == <<gridSize, pc, solution, attempts, regions, queues, unassignedCount,
          addedThisRound, regionIndex, attemptNumber, solutionCount,
          beansPlaced, xMarkers, autoXMarkers, gameActive,
          autoFillChecked, errors, csPlacedBeans, csUsedCols, csUsedRegions,
          now, startTime, timerInterval, intervals, timerText, message, timeouts,
          ivRow, ivCol, ivBeans, ivResult, rcRegionNumber, rcResult>>

genVars == <<attempts, regions, queues, unassignedCount, addedThisRound,
             regionIndex, attemptNumber, solutionCount>>
playVars == <<beansPlaced, xMarkers, autoXMarkers, gameActive>>
checkVars == <<autoFillChecked, errors>>
csVars == <<csPlacedBeans, csUsedCols, csUsedRegions>>
timerVars == <<now, startTime, timerInterval, intervals, timerText>>
messageVars == <<message, timeouts>>
ivVars == <<ivRow, ivCol, ivBeans, ivResult>>
rcVars == <<rcRegionNumber, rcResult>>

----------------------------------------------------------------------------
(* Bounds and program constants *)

\* board sizes the pipeline is explored on (the program's own size is 8)
BoardSizes == {1, 4}

\* longest list of existing beans handed to isValidPlacement
MaxBeans == 2

maxAttempts == 1000
maxRegenerationAttempts == 10
maxSolutions == 2

----------------------------------------------------------------------------
(* Helpers *)

Abs(x) == IF x < 0 THEN -x ELSE x

Pos(r, c) == [row |-> r, col |-> c]

Rows == 0 .. gridSize - 1
Cells == 0 .. gridSize * gridSize - 1
CellIndex(p) == p.row * gridSize + p.col
InBounds(p) == p.row >= 0 /\ p.row < gridSize /\ p.col >= 0 /\ p.col < gridSize

Range(s) == {s[i] : i \in DOMAIN s}

\* the indices 0..n-1 as a sequence, the order of the "for" loops
UpTo(n) == [k \in 1 .. n |-> k - 1]

\* [a[i], a[j]] = [a[j], a[i]] on a 0-indexed array
Swap(a, i, j) == [a EXCEPT ![i + 1] = a[j + 1], ![j + 1] = a[i + 1]]

\* every outcome of the Fisher-Yates loop "for (i = length-1; i > 0; i--)
\* { j = floor(random() * (i+1)); swap(i, j) }", started at index i
RECURSIVE FisherYates(_, _)
FisherYates(a, i) ==
    IF i <= 0 THEN {a}
    ELSE UNION {FisherYates(Swap(a, i, j), i - 1) : j \in 0 .. i}

shuffleArray(array) == FisherYates(array, Len(array) - 1)

----------------------------------------------------------------------------
(* isValidPlacement(row, col, existingBeans) *)

isValidPlacement_missDiagonal(row, col, existingBeans) ==
    \A k \in DOMAIN existingBeans :
        ~ (Abs(existingBeans[k].row - row) + Abs(existingBeans[k].col - col) <= 1)

isValidPlacement_lastOnly(row, col, existingBeans) ==
    \/ existingBeans = << >>
    \/ LET bean == existingBeans[Len(existingBeans)]
       IN  ~ (Abs(bean.row - row) <= 1 /\ Abs(bean.col - col) <= 1)

RECURSIVE isValidPlacementFrom(_, _, _, _)
isValidPlacementFrom(row, col, existingBeans, k) ==
    IF k > Len(existingBeans) THEN TRUE
    ELSE LET bean == existingBeans[k]
             rowDiff == Abs(bean.row - row)
             colDiff == Abs(bean.col - col)
         IN  IF rowDiff <= 1 /\ colDiff <= 1 THEN FALSE
             ELSE isValidPlacementFrom(row, col, existingBeans, k + 1)

isValidPlacement(row, col, existingBeans) ==
    isValidPlacementFrom(row, col, existingBeans, 1)

----------------------------------------------------------------------------
(* generateValidSolution *)

\* the inner "for colIndex" loop of one row: the first column of the shuffled
\* order that is unused and does not touch; -1 when the row cannot be filled
RECURSIVE firstColumn(_, _, _, _, _)
firstColumn(row, availableCols, usedCols, sol, colIndex) ==
    IF colIndex >= Len(availableCols) THEN -1
    ELSE LET col == availableCols[colIndex + 1]
         IN  IF col \in usedCols
                 THEN firstColumn(row, availableCols, usedCols, sol, colIndex + 1)
             ELSE IF isValidPlacement(row, col, sol) THEN col
             ELSE firstColumn(row, availableCols, usedCols, sol, colIndex + 1)

\* the "for row" loop of one attempt, from row on
RECURSIVE placeRows(_, _, _, _)
placeRows(row, availableCols, usedCols, sol) ==
    IF row >= gridSize THEN sol
    ELSE LET col == firstColumn(row, availableCols, usedCols, sol, 0)
         IN  IF col = -1 THEN sol
             ELSE \* (the one-element sets bind the new arguments as values)
                  CHOOSE result \in
                      {placeRows(row + 1, availableCols, used, placed) :
                           used \in {usedCols \cup {col}},
                           placed \in {Append(sol, Pos(row, col))}} : TRUE

\* a literal in which the beans of rows 6 and 7 touch
validPattern_touching ==
    << Pos(0, 0), Pos(1, 4), Pos(2, 7), Pos(3, 5),
       Pos(4, 2), Pos(5, 6), Pos(6, 3), Pos(7, 3) >>

\* the literal of the source, a pattern for the 8x8 board
validPattern ==
    << Pos(0, 0), Pos(1, 4), Pos(2, 7), Pos(3, 5),
       Pos(4, 2), Pos(5, 6), Pos(6, 1), Pos(7, 3) >>

\* Not in the source: the pre-made placement that stands for validPattern on a
\* board of another size than 8, where the literal does not fit.  It is part of
\* the scaling of the board, like BoardSizes.
ScaledPattern ==
    CASE gridSize = 4 -> << Pos(0, 1), Pos(1, 3), Pos(2, 0), Pos(3, 2) >>
      [] gridSize = 5 -> << Pos(0, 0), Pos(1, 2), Pos(2, 4), Pos(3, 1), Pos(4, 3) >>
      [] OTHER -> << Pos(0, 0) >>

\* on the program's board, gridSize = 8, this is "return validPattern"
generateFallbackSolution ==
    IF gridSize = Len(validPattern) THEN validPattern ELSE ScaledPattern

\* Three of the 40320 outcomes of the shuffle of the eight columns.  On the
\* first two the placement fails in row 7, on the third it places all eight
\* beans; none of them leads to validPattern.
SampledOrders ==
    { << 0, 1, 2, 3, 4, 5, 6, 7 >>,
      << 7, 6, 5, 4, 3, 2, 1, 0 >>,
      << 3, 0, 6, 1, 4, 7, 2, 5 >> }

\* the outcomes of the shuffle of availableCols an attempt is explored on: all
\* of them on the boards of BoardSizes, those of SampledOrders on the 8x8 board
\* (the shuffle can leave the columns in any arrangement)
ColumnOrders ==
    IF gridSize \in BoardSizes THEN shuffleArray(UpTo(gridSize))
    ELSE {order \in SampledOrders : Len(order) = gridSize /\ Range(order) = Rows}

----------------------------------------------------------------------------
(* generateRegionsFromSolution and its helpers *)

\* the seeding with the index computed as col * gridSize + row
\* the map with no cell given to the solution beans ("Step 1" left out)
SeedRegions_unseeded == [i \in Cells |-> -1]

SeedRegions_transposed ==
    [i \in Cells |->
        IF \E k \in DOMAIN solution : solution[k].col * gridSize + solution[k].row = i
            THEN (CHOOSE k \in DOMAIN solution :
                     solution[k].col * gridSize + solution[k].row = i) - 1
        ELSE -1]

\* solution.forEach((bean, regionIndex) => regions[index] = regionIndex) on a
\* map that is -1 everywhere
SeedRegions ==
    [i \in Cells |->
        IF \E k \in DOMAIN solution : CellIndex(solution[k]) = i
            THEN (CHOOSE k \in DOMAIN solution :
                     /\ CellIndex(solution[k]) = i
                     /\ \A m \in DOMAIN solution :
                            CellIndex(solution[m]) = i => m <= k) - 1
        ELSE -1]

SeedQueues ==
    [r \in Rows |-> IF r + 1 \in DOMAIN solution THEN << solution[r + 1] >> ELSE << >>]

\* the neighbours with the cell below to the right in place of the one to the right
Neighbors_diagonal(current) ==
    << Pos(current.row - 1, current.col), Pos(current.row + 1, current.col),
       Pos(current.row, current.col - 1), Pos(current.row + 1, current.col + 1) >>

\* the neighbours without the one to the left
Neighbors_noLeft(current) ==
    << Pos(current.row - 1, current.col), Pos(current.row + 1, current.col),
       Pos(current.row, current.col + 1) >>

\* the four neighbours in the order the source lists them: up, down, left, right
Neighbors(current) ==
    << Pos(current.row - 1, current.col), Pos(current.row + 1, current.col),
       Pos(current.row, current.col - 1), Pos(current.row, current.col + 1) >>

\* the scan without the test "regions[neighborIndex] === -1"
RECURSIVE firstUnassigned_anyInBounds(_, _, _)
firstUnassigned_anyInBounds(regs, neighbors, k) ==
    IF k > Len(neighbors) THEN 0
    ELSE IF InBounds(neighbors[k]) THEN k
    ELSE firstUnassigned_anyInBounds(regs, neighbors, k + 1)

\* "for (const neighbor of neighbors)": index of the first neighbour that is in
\* bounds and unassigned, 0 when there is none
RECURSIVE firstUnassigned(_, _, _)
firstUnassigned(regs, neighbors, k) ==
    IF k > Len(neighbors) THEN 0
    ELSE IF InBounds(neighbors[k]) /\ regs[CellIndex(neighbors[k])] = -1 THEN k
    ELSE firstUnassigned(regs, neighbors, k + 1)

\* findClosestRegion: the loops run distance = 1..gridSize-1, dr = -distance..distance,
\* dc = -distance..distance and return at the first assigned cell met
ScanOrderLess(a, b) ==
    \/ a[1] < b[1]
    \/ a[1] = b[1] /\ a[2] < b[2]
    \/ a[1] = b[1] /\ a[2] = b[2] /\ a[3] < b[3]

\* the scan returning the last assigned cell it meets instead of the first
findClosestRegion_lastHit(regs, cellIndex) ==
    LET row == cellIndex \div gridSize
        col == cellIndex % gridSize
        hits == {t \in (1 .. gridSize - 1) \X (-(gridSize - 1) .. gridSize - 1)
                        \X (-(gridSize - 1) .. gridSize - 1) :
                    /\ t[2] >= -t[1] /\ t[2] <= t[1]
                    /\ t[3] >= -t[1] /\ t[3] <= t[1]
                    /\ InBounds(Pos(row + t[2], col + t[3]))
                    /\ regs[(row + t[2]) * gridSize + (col + t[3])] # -1}
    IN  IF hits = {} THEN 0
        ELSE LET last == CHOOSE t \in hits : \A u \in hits : u = t \/ ScanOrderLess(u, t)
             IN  regs[(row + last[2]) * gridSize + (col + last[3])]

findClosestRegion(regs, cellIndex) ==
    LET row == cellIndex \div gridSize
        col == cellIndex % gridSize
        hits == {t \in (1 .. gridSize - 1) \X (-(gridSize - 1) .. gridSize - 1)
                        \X (-(gridSize - 1) .. gridSize - 1) :
                    /\ t[2] >= -t[1] /\ t[2] <= t[1]
                    /\ t[3] >= -t[1] /\ t[3] <= t[1]
                    /\ InBounds(Pos(row + t[2], col + t[3]))
                    /\ regs[(row + t[2]) * gridSize + (col + t[3])] # -1}
    IN  IF hits = {} THEN 0
        ELSE LET first == CHOOSE t \in hits : \A u \in hits : u = t \/ ScanOrderLess(t, u)
             IN  regs[(row + first[2]) * gridSize + (col + first[3])]

\* a stall that leaves the remaining cells as they are
fillRemaining_skipsFill(regs, i) == regs

\* the stall fill: "for (i = 0; i < gridSize*gridSize; i++) if (regions[i] === -1)
\* regions[i] = findClosestRegion(i)", every cell seeing the cells filled before it
RECURSIVE fillRemaining(_, _)
fillRemaining(regs, i) ==
    IF i >= gridSize * gridSize THEN regs
    ELSE IF regs[i] = -1
        THEN \* (the one-element set binds the new map as a value)
             CHOOSE result \in
                 {fillRemaining(filled, i + 1) :
                      filled \in {[regs EXCEPT ![i] = findClosestRegion(regs, i)]}} : TRUE
    ELSE fillRemaining(regs, i + 1)

\* isRegionConnected: flood fill from the first cell of the region
RECURSIVE floodFill(_, _, _, _)
floodFill(regs, regionNumber, queue, visited) ==
    IF queue = << >> THEN visited
    ELSE LET current == Head(queue)
             nbrs == Neighbors(current)
             fresh == SelectSeq(nbrs, LAMBDA n :
                          /\ InBounds(n)
                          /\ CellIndex(n) \notin visited
                          /\ regs[CellIndex(n)] = regionNumber)
         IN  CHOOSE result \in
                 {floodFill(regs, regionNumber, q, v) :
                      q \in {Tail(queue) \o fresh},
                      v \in {visited \cup {CellIndex(fresh[k]) : k \in DOMAIN fresh}}} : TRUE

isRegionConnected(regs, regionNumber) ==
    LET regionCells == {i \in Cells : regs[i] = regionNumber}
    IN  IF Cardinality(regionCells) <= 1 THEN TRUE
        ELSE LET firstIndex == CHOOSE i \in regionCells : \A j \in regionCells : i <= j
                 start == Pos(firstIndex \div gridSize, firstIndex % gridSize)
                 visited == floodFill(regs, regionNumber, << start >>, {firstIndex})
             IN  Cardinality(visited) = Cardinality(regionCells)

----------------------------------------------------------------------------
(* countSolutions *)

\* the test for touching that looks at the four orthogonal neighbours only
TouchesExisting_orthogonalOnly(placedBeans, row, col) ==
    \E k \in DOMAIN placedBeans :
        Abs(placedBeans[k].row - row) + Abs(placedBeans[k].col - col) <= 1

TouchesExisting(placedBeans, row, col) ==
    \E k \in DOMAIN placedBeans :
        Abs(placedBeans[k].row - row) <= 1 /\ Abs(placedBeans[k].col - col) <= 1

\* a backtrack that leaves the bean in placedBeans
backtrack_keepsBean(sub, col, regionIdx) ==
    [sub EXCEPT !.usedCols = @ \ {col}, !.usedRegions = @ \ {regionIdx}]

\* "placedBeans.pop(); usedCols.delete(col); usedRegions.delete(regionIndex)" on
\* the working sets as the recursive call has left them
backtrack(sub, col, regionIdx) ==
    [sub EXCEPT !.placedBeans = SubSeq(@, 1, Len(@) - 1),
                !.usedCols = @ \ {col},
                !.usedRegions = @ \ {regionIdx}]

\* solve(row, placedBeans, usedCols, usedRegions) with the "for col" loop resumed
\* at col; count is solutionCount on entry.  placedBeans, usedCols and usedRegions
\* are objects the calls share, so the result carries them as the call leaves
\* them: [count, stop, placedBeans, usedCols, usedRegions].
RECURSIVE solve(_, _, _, _, _, _, _)
RECURSIVE resume(_, _, _, _)

solve(regs, row, col, placedBeans, usedCols, usedRegions, count) ==
    IF row = gridSize
        THEN [count |-> count + 1, stop |-> count + 1 >= maxSolutions,
              placedBeans |-> placedBeans, usedCols |-> usedCols,
              usedRegions |-> usedRegions]
    ELSE IF col >= gridSize
        THEN [count |-> count, stop |-> FALSE,
              placedBeans |-> placedBeans, usedCols |-> usedCols,
              usedRegions |-> usedRegions]
    ELSE LET regionIdx == regs[row * gridSize + col]
         IN  IF \/ col \in usedCols
                \/ regionIdx \in usedRegions
                \/ TouchesExisting(placedBeans, row, col)
                 THEN solve(regs, row, col + 1, placedBeans, usedCols, usedRegions, count)
             ELSE \* (the one-element set binds the result of the call as a value)
                  CHOOSE result \in
                      {resume(regs, row, col, backtrack(sub, col, regionIdx)) :
                           sub \in {solve(regs, row + 1, 0, Append(placedBeans, Pos(row, col)),
                                          usedCols \cup {col}, usedRegions \cup {regionIdx},
                                          count)}} : TRUE

\* after the backtrack: "if (shouldStop) return true", else the next column
resume(regs, row, col, sub) ==
    IF sub.stop THEN sub
    ELSE solve(regs, row, col + 1, sub.placedBeans, sub.usedCols, sub.usedRegions, sub.count)

\* the call solve(0, [], new Set(), new Set())
search(regs) == solve(regs, 0, 0, << >>, {}, {}, 0)

countSolutions(regs) == search(regs).count

----------------------------------------------------------------------------
(* checkSolution: the list of errors it collects for a full board *)

\* rule 4 with the inner loop looking at the next bean only
RECURSIVE TouchingErrors_nextBeanOnly(_, _, _)
TouchingErrors_nextBeanOnly(beans, i, j) ==
    IF i >= Len(beans) THEN << >>
    ELSE LET b1 == beans[i]
             b2 == beans[i + 1]
         IN  (IF Abs(b1.row - b2.row) <= 1 /\ Abs(b1.col - b2.col) <= 1
                  THEN << [rule |-> "touching", a |-> b1, b |-> b2] >>
              ELSE << >>) \o TouchingErrors_nextBeanOnly(beans, i + 1, i + 2)

\* the pairs (i, j), i < j, in the order of the nested loops of rule 4
RECURSIVE TouchingErrors(_, _, _)
TouchingErrors(beans, i, j) ==
    IF i > Len(beans) THEN << >>
    ELSE IF j > Len(beans) THEN TouchingErrors(beans, i + 1, i + 2)
    ELSE LET b1 == beans[i]
             b2 == beans[j]
             rowDiff == Abs(b1.row - b2.row)
             colDiff == Abs(b1.col - b2.col)
         IN  (IF rowDiff <= 1 /\ colDiff <= 1
                  THEN << [rule |-> "touching", a |-> b1, b |-> b2] >>
              ELSE << >>) \o TouchingErrors(beans, i, j + 1)

\* the check without rule 3
checkSolutionErrors_noRegionRule(beans, regs) ==
    LET rowErrors ==
            SelectSeq(UpTo(gridSize),
                      LAMBDA i : Len(SelectSeq(beans, LAMBDA b : b.row = i)) # 1)
        colErrors ==
            SelectSeq(UpTo(gridSize),
                      LAMBDA j : Len(SelectSeq(beans, LAMBDA b : b.col = j)) # 1)
    IN  [k \in DOMAIN rowErrors |-> [rule |-> "row", a |-> rowErrors[k], b |-> -1]]
        \o [k \in DOMAIN colErrors |-> [rule |-> "column", a |-> colErrors[k], b |-> -1]]
        \o TouchingErrors(beans, 1, 2)

\* a check that stops at the first rule that is violated
checkSolutionErrors_firstRuleOnly(beans, regs) ==
    LET rowErrors ==
            SelectSeq(UpTo(gridSize),
                      LAMBDA i : Len(SelectSeq(beans, LAMBDA b : b.row = i)) # 1)
        colErrors ==
            SelectSeq(UpTo(gridSize),
                      LAMBDA j : Len(SelectSeq(beans, LAMBDA b : b.col = j)) # 1)
        regionErrors ==
            SelectSeq(UpTo(gridSize),
                      LAMBDA r : Len(SelectSeq(beans, LAMBDA b : regs[CellIndex(b)] = r)) # 1)
    IN  IF rowErrors # << >>
            THEN [k \in DOMAIN rowErrors |-> [rule |-> "row", a |-> rowErrors[k], b |-> -1]]
        ELSE IF colErrors # << >>
            THEN [k \in DOMAIN colErrors |-> [rule |-> "column", a |-> colErrors[k], b |-> -1]]
        ELSE IF regionErrors # << >>
            THEN [k \in DOMAIN regionErrors |->
                      [rule |-> "region", a |-> regionErrors[k], b |-> -1]]
        ELSE TouchingErrors(beans, 1, 2)

checkSolutionErrors(beans, regs) ==
    LET rowErrors ==
            SelectSeq(UpTo(gridSize),
                      LAMBDA i : Len(SelectSeq(beans, LAMBDA b : b.row = i)) # 1)
        colErrors ==
            SelectSeq(UpTo(gridSize),
                      LAMBDA j : Len(SelectSeq(beans, LAMBDA b : b.col = j)) # 1)
        regionErrors ==
            SelectSeq(UpTo(gridSize),
                      LAMBDA r : Len(SelectSeq(beans, LAMBDA b : regs[CellIndex(b)] = r)) # 1)
    IN  [k \in DOMAIN rowErrors |-> [rule |-> "row", a |-> rowErrors[k], b |-> -1]]
        \o [k \in DOMAIN colErrors |-> [rule |-> "column", a |-> colErrors[k], b |-> -1]]
        \o [k \in DOMAIN regionErrors |-> [rule |-> "region", a |-> regionErrors[k], b |-> -1]]
        \o TouchingErrors(beans, 1, 2)

----------------------------------------------------------------------------
(* The timer display and the message line *)

\* the clock Date.now() is read in steps of 1 / TicksPerSecond seconds
TicksPerSecond == 2

\* last value of the clock the model lets time run to; the clock starts at 1,
\* Date.now() being positive
MaxClock == 6

\* null, which the script only tests for truth ("if (timerInterval)",
\* "if (!startTime)"): the one falsy value among the numbers
Null == 0

\* String(n) of a natural number: its decimal digits
RECURSIVE String(_)
String(n) ==
    LET digit == << "0", "1", "2", "3", "4", "5", "6", "7", "8", "9" >>[(n % 10) + 1]
    IN  IF n < 10 THEN << digit >> ELSE Append(String(n \div 10), digit)

\* str.padStart(2, '0')
padStart(str) == IF Len(str) < 2 THEN << "0" >> \o str ELSE str

\* updateTimer: the text it writes when the clock shows "clock" and the game
\* started at "start"
TimerText(clock, start) ==
    LET elapsed == (clock - start) \div TicksPerSecond
        minutes == elapsed \div 60
        seconds == elapsed % 60
    IN  padStart(String(minutes)) \o << ":" >> \o padStart(String(seconds))

\* setInterval: the id of the new interval, one that no active interval and
\* no variable of the script holds
NewIntervalId(active, held) ==
    CHOOSE id \in 1 .. Cardinality(active) + 2 :
        /\ id \notin active
        /\ id # held
        /\ \A other \in 1 .. id - 1 : other \in active \/ other = held

\* a clearInterval that stops nothing
clearInterval_keepsAll(active, id) == active

\* clearInterval(id): the active intervals that are left
clearInterval(active, id) == active \ {id}

\* the message line with no message shown
NoMessage == [text |-> << >>, classes |-> {"message"}]

\* showMessage(text, type) on the message line and the pending timeouts "ui"
showMessage(ui, text, type) ==
    [message |-> [text |-> text, classes |-> {"message", "show", type}],
     timeouts |-> ui.timeouts \cup {<< "autoHide", type >>}]

\* hideMessage()
hideMessage(ui) ==
    [message |-> [ui.message EXCEPT !.classes = @ \ {"show"}],
     timeouts |-> ui.timeouts \cup {<< "clearMessage", "" >>}]

----------------------------------------------------------------------------
(* The state after the script has loaded *)

NoCall == "none"

LoadState ==
    /\ solution = << >>
    /\ attempts = 0
    /\ regions = << >>
    /\ queues = << >>
    /\ unassignedCount = 0
    /\ addedThisRound = FALSE
    /\ regionIndex = 0
    /\ attemptNumber = 0
    /\ solutionCount = 0
    /\ beansPlaced = << >>
    /\ xMarkers = << >>
    /\ autoXMarkers = << >>
    /\ gameActive = FALSE
    /\ autoFillChecked = TRUE      \* the checkbox comes checked
    /\ errors = << >>
    /\ csPlacedBeans = << >>
    /\ csUsedCols = {}
    /\ csUsedRegions = {}
    /\ now = 1
    /\ startTime = Null
    /\ timerInterval = Null
    /\ intervals = {}
    /\ timerText = TimerText(1, 1)   \* the page shows 00:00 until the first tick
    /\ message = NoMessage
    /\ timeouts = {}

Init ==
    /\ gridSize \in BoardSizes
    /\ pc = "load"
    /\ LoadState
    /\ ivRow = NoCall /\ ivCol = NoCall /\ ivBeans = NoCall /\ ivResult = NoCall
    /\ rcRegionNumber = NoCall /\ rcResult = NoCall

----------------------------------------------------------------------------
(* initializeGame, lines 46-58: the state reset, then generateValidSolution. *)
(* This is the call made by the DOMContentLoaded listener.                  *)

InitializeGame ==
    /\ pc = "load"
    /\ gameActive' = TRUE
    /\ beansPlaced' = << >>
    /\ xMarkers' = << >>
    /\ autoXMarkers' = << >>
    /\ solution' = << >>
    /\ attempts' = 0
    /\ startTime' = now
    /\ pc' = "generateValidSolution"
    /\ UNCHANGED <<gridSize, regions, queues, unassignedCount, addedThisRound,
                   regionIndex, attemptNumber, solutionCount>>
    /\ UNCHANGED checkVars
    /\ UNCHANGED csVars
    /\ UNCHANGED <<now, timerInterval, intervals, timerText>>
    /\ UNCHANGED messageVars
    /\ UNCHANGED ivVars
    /\ UNCHANGED rcVars

\* one pass of "while (solution.length < gridSize && attempts < maxAttempts)"
SolutionAttempt ==
    /\ pc = "generateValidSolution"
    /\ Len(solution) < gridSize /\ attempts < maxAttempts
    /\ attempts' = attempts + 1
    /\ \E availableCols \in ColumnOrders :
           solution' = placeRows(0, availableCols, {}, << >>)
    /\ UNCHANGED <<gridSize, pc, regions, queues, unassignedCount, addedThisRound,
                   regionIndex, attemptNumber, solutionCount>>
    /\ UNCHANGED playVars
    /\ UNCHANGED checkVars
    /\ UNCHANGED csVars
    /\ UNCHANGED timerVars
    /\ UNCHANGED messageVars
    /\ UNCHANGED ivVars
    /\ UNCHANGED rcVars

\* the loop has ended: the fallback when the last attempt is incomplete, then
\* validateSolution (which only logs), then the first generateRegionsFromSolution()
SolutionReturn ==
    /\ pc = "generateValidSolution"
    /\ ~ (Len(solution) < gridSize /\ attempts < maxAttempts)
    /\ solution' = IF Len(solution) # gridSize THEN generateFallbackSolution
                   ELSE solution
    /\ attempts' = 0          \* a local of the call that returns here
    /\ attemptNumber' = 0
    /\ pc' = "generateRegions"
    /\ UNCHANGED <<gridSize, regions, queues, unassignedCount,
                   addedThisRound, regionIndex, solutionCount>>
    /\ UNCHANGED playVars
    /\ UNCHANGED checkVars
    /\ UNCHANGED csVars
    /\ UNCHANGED timerVars
    /\ UNCHANGED messageVars
    /\ UNCHANGED ivVars
    /\ UNCHANGED rcVars

----------------------------------------------------------------------------
(* generateRegionsFromSolution(attemptNumber) *)

\* the locals of a call that has returned
ReturnFromRegions ==
    /\ queues' = << >>
    /\ unassignedCount' = 0
    /\ addedThisRound' = FALSE
    /\ regionIndex' = 0
    /\ attemptNumber' = 0
    /\ pc' = "countSolutions"

\* lines 244-273: the depth guard, the seeding of the regions and of the queues
RegionsEnter ==
    /\ pc = "generateRegions"
    /\ IF attemptNumber >= maxRegenerationAttempts
           THEN /\ ReturnFromRegions
                /\ UNCHANGED regions
       ELSE /\ regions' = SeedRegions
            /\ queues' = SeedQueues
            /\ unassignedCount' = gridSize * gridSize - gridSize
            /\ pc' = "growthLoop"
            /\ UNCHANGED <<addedThisRound, regionIndex, attemptNumber>>
    /\ UNCHANGED <<gridSize, solution, attempts, solutionCount>>
    /\ UNCHANGED playVars
    /\ UNCHANGED checkVars
    /\ UNCHANGED csVars
    /\ UNCHANGED timerVars
    /\ UNCHANGED messageVars
    /\ UNCHANGED ivVars
    /\ UNCHANGED rcVars

\* line 275: "while (unassignedCount > 0)" and the start of a round
GrowthLoop ==
    /\ pc = "growthLoop"
    /\ IF unassignedCount > 0
           THEN /\ addedThisRound' = FALSE
                /\ regionIndex' = 0
                /\ pc' = "regionTurn"
       ELSE /\ pc' = "verifyRegions"
            /\ UNCHANGED <<addedThisRound, regionIndex>>
    /\ UNCHANGED <<gridSize, solution, attempts, regions, queues, unassignedCount,
                   attemptNumber, solutionCount>>
    /\ UNCHANGED playVars
    /\ UNCHANGED checkVars
    /\ UNCHANGED csVars
    /\ UNCHANGED timerVars
    /\ UNCHANGED messageVars
    /\ UNCHANGED ivVars
    /\ UNCHANGED rcVars

\* the turn of a region without the "break" after the first claimed neighbour
RegionTurn_noBreak ==
    /\ pc = "regionTurn"
    /\ regionIndex < gridSize
    /\ regionIndex' = regionIndex + 1
    /\ IF queues[regionIndex] = << >>
           THEN UNCHANGED <<regions, queues, unassignedCount, addedThisRound>>
       ELSE LET current == Head(queues[regionIndex])
                rest == Tail(queues[regionIndex])
            IN  \E neighbors \in shuffleArray(Neighbors(current)) :
                    LET free == {k \in DOMAIN neighbors :
                                    /\ InBounds(neighbors[k])
                                    /\ regions[CellIndex(neighbors[k])] = -1}
                        k == firstUnassigned(regions, neighbors, 1)
                    IN  IF k = 0
                            THEN /\ queues' = [queues EXCEPT ![regionIndex] = rest]
                                 /\ UNCHANGED <<regions, unassignedCount, addedThisRound>>
                        ELSE /\ regions' =
                                    [i \in Cells |->
                                        IF \E m \in free : CellIndex(neighbors[m]) = i
                                            THEN regionIndex
                                        ELSE regions[i]]
                             /\ queues' = [queues EXCEPT
                                              ![regionIndex] = Append(rest, neighbors[k])]
                             /\ unassignedCount' = unassignedCount - Cardinality(free)
                             /\ addedThisRound' = TRUE
    /\ UNCHANGED <<gridSize, pc, solution, attempts, attemptNumber, solutionCount>>
    /\ UNCHANGED playVars
    /\ UNCHANGED checkVars
    /\ UNCHANGED csVars
    /\ UNCHANGED timerVars
    /\ UNCHANGED messageVars
    /\ UNCHANGED ivVars
    /\ UNCHANGED rcVars

\* the turn of a region reading queues[regionIndex][0] without the shift()
RegionTurn_peeks ==
    /\ pc = "regionTurn"
    /\ regionIndex < gridSize
    /\ regionIndex' = regionIndex + 1
    /\ IF queues[regionIndex] = << >>
           THEN UNCHANGED <<regions, queues, unassignedCount, addedThisRound>>
       ELSE LET current == Head(queues[regionIndex])
                rest == queues[regionIndex]
            IN  \E neighbors \in shuffleArray(Neighbors(current)) :
                    LET k == firstUnassigned(regions, neighbors, 1)
                    IN  IF k = 0
                            THEN /\ queues' = [queues EXCEPT ![regionIndex] = rest]
                                 /\ UNCHANGED <<regions, unassignedCount, addedThisRound>>
                        ELSE /\ regions' = [regions EXCEPT
                                               ![CellIndex(neighbors[k])] = regionIndex]
                             /\ queues' = [queues EXCEPT
                                              ![regionIndex] = Append(rest, neighbors[k])]
                             /\ unassignedCount' = unassignedCount - 1
                             /\ addedThisRound' = TRUE
    /\ UNCHANGED <<gridSize, pc, solution, attempts, attemptNumber, solutionCount>>
    /\ UNCHANGED playVars
    /\ UNCHANGED checkVars
    /\ UNCHANGED csVars
    /\ UNCHANGED timerVars
    /\ UNCHANGED messageVars
    /\ UNCHANGED ivVars
    /\ UNCHANGED rcVars

\* lines 279-314: the turn of region regionIndex
RegionTurn ==
    /\ pc = "regionTurn"
    /\ regionIndex < gridSize
    /\ regionIndex' = regionIndex + 1
    /\ IF queues[regionIndex] = << >>
           THEN UNCHANGED <<regions, queues, unassignedCount, addedThisRound>>
       ELSE LET current == Head(queues[regionIndex])
                rest == Tail(queues[regionIndex])
            IN  \E neighbors \in shuffleArray(Neighbors(current)) :
                    LET k == firstUnassigned(regions, neighbors, 1)
                    IN  IF k = 0
                            THEN /\ queues' = [queues EXCEPT ![regionIndex] = rest]
                                 /\ UNCHANGED <<regions, unassignedCount, addedThisRound>>
                        ELSE /\ regions' = [regions EXCEPT
                                               ![CellIndex(neighbors[k])] = regionIndex]
                             /\ queues' = [queues EXCEPT
                                              ![regionIndex] = Append(rest, neighbors[k])]
                             /\ unassignedCount' = unassignedCount - 1
                             /\ addedThisRound' = TRUE
    /\ UNCHANGED <<gridSize, pc, solution, attempts, attemptNumber, solutionCount>>
    /\ UNCHANGED playVars
    /\ UNCHANGED checkVars
    /\ UNCHANGED csVars
    /\ UNCHANGED timerVars
    /\ UNCHANGED messageVars
    /\ UNCHANGED ivVars
    /\ UNCHANGED rcVars

\* lines 316-328: after the last region of a round, the stall fill
RoundEnd ==
    /\ pc = "regionTurn"
    /\ regionIndex >= gridSize
    /\ IF ~ addedThisRound
           THEN /\ regions' = fillRemaining(regions, 0)
                /\ unassignedCount' =
                       unassignedCount - Cardinality({i \in Cells : regions[i] = -1})
                /\ pc' = "verifyRegions"
       ELSE /\ pc' = "growthLoop"
            /\ UNCHANGED <<regions, unassignedCount>>
    /\ UNCHANGED <<gridSize, solution, attempts, queues, addedThisRound, regionIndex,
                   attemptNumber, solutionCount>>
    /\ UNCHANGED playVars
    /\ UNCHANGED checkVars
    /\ UNCHANGED csVars
    /\ UNCHANGED timerVars
    /\ UNCHANGED messageVars
    /\ UNCHANGED ivVars
    /\ UNCHANGED rcVars

\* the retry made as generateRegionsFromSolution(attemptNumber)
VerifyRegions_sameAttempt ==
    /\ pc = "verifyRegions"
    /\ IF \E r \in Rows : ~ isRegionConnected(regions, r)
           THEN /\ pc' = "generateRegions"
                /\ UNCHANGED <<queues, unassignedCount, addedThisRound, regionIndex,
                               attemptNumber>>
       ELSE ReturnFromRegions
    /\ UNCHANGED <<gridSize, solution, attempts, regions, solutionCount>>
    /\ UNCHANGED playVars
    /\ UNCHANGED checkVars
    /\ UNCHANGED csVars
    /\ UNCHANGED timerVars
    /\ UNCHANGED messageVars
    /\ UNCHANGED ivVars
    /\ UNCHANGED rcVars

\* lines 330-341: a disconnected region makes the function call itself with
\* attemptNumber + 1 and return when that call returns
VerifyRegions ==
    /\ pc = "verifyRegions"
    /\ IF \E r \in Rows : ~ isRegionConnected(regions, r)
           THEN /\ attemptNumber' = attemptNumber + 1
                /\ pc' = "generateRegions"
                /\ UNCHANGED <<queues, unassignedCount, addedThisRound, regionIndex>>
       ELSE ReturnFromRegions
    /\ UNCHANGED <<gridSize, solution, attempts, regions, solutionCount>>
    /\ UNCHANGED playVars
    /\ UNCHANGED checkVars
    /\ UNCHANGED csVars
    /\ UNCHANGED timerVars
    /\ UNCHANGED messageVars
    /\ UNCHANGED ivVars
    /\ UNCHANGED rcVars

----------------------------------------------------------------------------
(* initializeGame, lines 66-96 *)

\* the loop leaving on "solutionCount >= 1"
UniquenessLoop_acceptsAnyCount ==
    /\ pc = "countSolutions"
    /\ solutionCount' = countSolutions(regions)
    /\ LET run == search(regions)
       IN  /\ csPlacedBeans' = run.placedBeans
           /\ csUsedCols' = run.usedCols
           /\ csUsedRegions' = run.usedRegions
    /\ IF solutionCount' >= 1
           THEN pc' = "createBoard"
       ELSE pc' = "generateRegions"
    /\ attemptNumber' = 0
    /\ UNCHANGED <<gridSize, solution, attempts, regions, queues, unassignedCount,
                   addedThisRound, regionIndex>>
    /\ UNCHANGED playVars
    /\ UNCHANGED checkVars
    /\ UNCHANGED timerVars
    /\ UNCHANGED messageVars
    /\ UNCHANGED ivVars
    /\ UNCHANGED rcVars

\* the loop starting over from generateValidSolution on a count other than 1
UniquenessLoop_regeneratesSolution ==
    /\ pc = "countSolutions"
    /\ solutionCount' = countSolutions(regions)
    /\ LET run == search(regions)
       IN  /\ csPlacedBeans' = run.placedBeans
           /\ csUsedCols' = run.usedCols
           /\ csUsedRegions' = run.usedRegions
    /\ IF solutionCount' = 1
           THEN pc' = "createBoard" /\ UNCHANGED solution
       ELSE pc' = "generateValidSolution" /\ solution' = << >>
    /\ attemptNumber' = 0
    /\ UNCHANGED <<gridSize, attempts, regions, queues, unassignedCount,
                   addedThisRound, regionIndex>>
    /\ UNCHANGED playVars
    /\ UNCHANGED checkVars
    /\ UNCHANGED timerVars
    /\ UNCHANGED messageVars
    /\ UNCHANGED ivVars
    /\ UNCHANGED rcVars

\* the loop leaving only when the count says "several solutions"
UniquenessLoop_leavesOnSeveral ==
    /\ pc = "countSolutions"
    /\ solutionCount' = countSolutions(regions)
    /\ LET run == search(regions)
       IN  /\ csPlacedBeans' = run.placedBeans
           /\ csUsedCols' = run.usedCols
           /\ csUsedRegions' = run.usedRegions
    /\ IF solutionCount' > 1
           THEN pc' = "createBoard"
       ELSE pc' = "generateRegions"
    /\ attemptNumber' = 0
    /\ UNCHANGED <<gridSize, solution, attempts, regions, queues, unassignedCount,
                   addedThisRound, regionIndex>>
    /\ UNCHANGED playVars
    /\ UNCHANGED checkVars
    /\ UNCHANGED timerVars
    /\ UNCHANGED messageVars
    /\ UNCHANGED ivVars
    /\ UNCHANGED rcVars

\* one pass of "while (true)": count, leave on 1, otherwise regenerate the regions
UniquenessLoop ==
    /\ pc = "countSolutions"
    /\ solutionCount' = countSolutions(regions)
    /\ LET run == search(regions)
       IN  /\ csPlacedBeans' = run.placedBeans
           /\ csUsedCols' = run.usedCols
           /\ csUsedRegions' = run.usedRegions
    /\ IF solutionCount' = 1
           THEN pc' = "createBoard"
       ELSE pc' = "generateRegions"      \* generateRegionsFromSolution()
    /\ attemptNumber' = 0
    /\ UNCHANGED <<gridSize, solution, attempts, regions, queues, unassignedCount,
                   addedThisRound, regionIndex>>
    /\ UNCHANGED playVars
    /\ UNCHANGED checkVars
    /\ UNCHANGED timerVars
    /\ UNCHANGED messageVars
    /\ UNCHANGED ivVars
    /\ UNCHANGED rcVars

\* createBoard(), the timer, updateBeansCount(), hideMessage()
StartGame ==
    /\ pc = "createBoard"
    /\ pc' = "playing"
    /\ LET stopped == IF timerInterval # Null
                          THEN clearInterval(intervals, timerInterval)
                      ELSE intervals
           id == NewIntervalId(stopped, timerInterval)
       IN  /\ timerInterval' = id
           /\ intervals' = stopped \cup {id}
    /\ LET ui == hideMessage([message |-> message, timeouts |-> timeouts])
       IN  /\ message' = ui.message
           /\ timeouts' = ui.timeouts
    /\ UNCHANGED <<gridSize, solution>>
    /\ UNCHANGED genVars
    /\ UNCHANGED playVars
    /\ UNCHANGED checkVars
    /\ UNCHANGED csVars
    /\ UNCHANGED <<now, startTime, timerText>>
    /\ UNCHANGED ivVars
    /\ UNCHANGED rcVars

Next ==
    \/ InitializeGame
    \/ SolutionAttempt
    \/ SolutionReturn
    \/ RegionsEnter
    \/ GrowthLoop
    \/ RegionTurn
    \/ RoundEnd
    \/ VerifyRegions
    \/ UniquenessLoop
    \/ StartGame

Spec == Init /\ [][Next]_vars

\* the single-threaded script runs on: a handler that can take a step takes it
FairSpec == Init /\ [][Next]_vars /\ WF_vars(Next)

\* the same, assumed of the runs on the 1x1 board only
FairSpecOne == Init /\ [][Next]_vars /\ WF_vars(gridSize = 1 /\ Next)

----------------------------------------------------------------------------
(* generateValidSolution alone, the program's own board included *)

SolutionBoardSizes == {1, 4, 8}

InitSolution ==
    /\ gridSize \in SolutionBoardSizes
    /\ pc = "load"
    /\ LoadState
    /\ ivRow = NoCall /\ ivCol = NoCall /\ ivBeans = NoCall /\ ivResult = NoCall
    /\ rcRegionNumber = NoCall /\ rcResult = NoCall

NextSolution ==
    \/ InitializeGame
    \/ SolutionAttempt
    \/ SolutionReturn

\* the loop of generateValidSolution runs on until the function returns
FairSpecSolution == InitSolution /\ [][NextSolution]_vars /\ WF_vars(NextSolution)

----------------------------------------------------------------------------
(* One call of isRegionConnected on an arbitrary region map *)

ConnectedBoardSizes == {2, 3}

InitConnected ==
    /\ gridSize \in ConnectedBoardSizes
    /\ pc = "isRegionConnected"
    /\ LoadState
    /\ ivRow = NoCall /\ ivCol = NoCall /\ ivBeans = NoCall /\ ivResult = NoCall
    /\ rcRegionNumber \in Rows
    /\ rcResult = NoCall

\* the map the call reads: "regions" is a global the function never writes
RegionMapsToVerify == [Cells -> Rows]

\* the region map is set to any map of the board before the call
PickRegionMap ==
    /\ pc = "isRegionConnected"
    /\ regions' \in RegionMapsToVerify
    /\ pc' = "isRegionConnected()"
    /\ UNCHANGED <<gridSize, solution, attempts, queues, unassignedCount, addedThisRound,
                   regionIndex, attemptNumber, solutionCount>>
    /\ UNCHANGED playVars
    /\ UNCHANGED checkVars
    /\ UNCHANGED csVars
    /\ UNCHANGED timerVars
    /\ UNCHANGED messageVars
    /\ UNCHANGED ivVars
    /\ UNCHANGED rcVars

IsRegionConnectedCall ==
    /\ pc = "isRegionConnected()"
    /\ rcResult' = isRegionConnected(regions, rcRegionNumber)
    /\ pc' = "connectedReturned"
    /\ UNCHANGED rcRegionNumber
    /\ UNCHANGED <<gridSize, solution>>
    /\ UNCHANGED genVars
    /\ UNCHANGED playVars
    /\ UNCHANGED checkVars
    /\ UNCHANGED csVars
    /\ UNCHANGED timerVars
    /\ UNCHANGED messageVars
    /\ UNCHANGED ivVars

NextConnected ==
    \/ PickRegionMap
    \/ IsRegionConnectedCall

SpecConnected == InitConnected /\ [][NextConnected]_vars

----------------------------------------------------------------------------
(* One call of isValidPlacement on arbitrary arguments *)

PositionsOf(n) == {Pos(r, c) : r \in 0 .. n - 1, c \in 0 .. n - 1}

BeanLists(n) == UNION {[1 .. len -> PositionsOf(n)] : len \in 0 .. MaxBeans}

InitPlacement ==
    /\ gridSize = 4
    /\ pc = "isValidPlacement"
    /\ LoadState
    /\ ivRow \in 0 .. gridSize - 1
    /\ ivCol \in 0 .. gridSize - 1
    /\ ivBeans \in BeanLists(gridSize)
    /\ ivResult = NoCall
    /\ rcRegionNumber = NoCall /\ rcResult = NoCall

IsValidPlacementCall ==
    /\ pc = "isValidPlacement"
    /\ ivResult' = isValidPlacement(ivRow, ivCol, ivBeans)
    /\ pc' = "returned"
    /\ UNCHANGED <<ivRow, ivCol, ivBeans>>
    /\ UNCHANGED <<gridSize, solution>>
    /\ UNCHANGED genVars
    /\ UNCHANGED playVars
    /\ UNCHANGED checkVars
    /\ UNCHANGED csVars
    /\ UNCHANGED timerVars
    /\ UNCHANGED messageVars
    /\ UNCHANGED rcVars

NextPlacement == IsValidPlacementCall

SpecPlacement == InitPlacement /\ [][NextPlacement]_vars

----------------------------------------------------------------------------
(* One call of countSolutions on an arbitrary total region map *)

\* board sizes of the calls of countSolutions: 4x4 boards have at most two
\* placements without touching beans, 5x5 boards have fourteen
CountBoardSizes == {4, 5}

\* the total region maps the calls are made on: the cell (r, c) is in region
\* (a[r] + m * c) % gridSize, for every choice of a and m.  They are horizontal
\* stripes (m = 0) and sheared stripes; a region may be empty or split.
RegionMaps ==
    {[i \in Cells |-> (a[i \div gridSize] + m * (i % gridSize)) % gridSize] :
         a \in [Rows -> Rows], m \in Rows}

InitCount ==
    /\ gridSize \in CountBoardSizes
    /\ pc = "countSolutions()"
    /\ solution = ScaledPattern
    /\ regions \in RegionMaps
    /\ attempts = 0
    /\ queues = << >>
    /\ unassignedCount = 0
    /\ addedThisRound = FALSE
    /\ regionIndex = 0
    /\ attemptNumber = 0
    /\ solutionCount = 0
    /\ beansPlaced = << >>
    /\ xMarkers = << >>
    /\ autoXMarkers = << >>
    /\ gameActive = TRUE
    /\ autoFillChecked = TRUE
    /\ errors = << >>
    /\ csPlacedBeans = << >>
    /\ csUsedCols = {}
    /\ csUsedRegions = {}
    /\ now = 1
    /\ startTime = 1
    /\ timerInterval = Null
    /\ intervals = {}
    /\ timerText = TimerText(1, 1)
    /\ message = NoMessage
    /\ timeouts = {}
    /\ ivRow = NoCall /\ ivCol = NoCall /\ ivBeans = NoCall /\ ivResult = NoCall
    /\ rcRegionNumber = NoCall /\ rcResult = NoCall

\* const solutionCount = countSolutions(); the working sets are observed as the
\* search leaves them
CountSolutionsCall ==
    /\ pc = "countSolutions()"
    /\ LET run == search(regions)
       IN  /\ solutionCount' = run.count
           /\ csPlacedBeans' = run.placedBeans
           /\ csUsedCols' = run.usedCols
           /\ csUsedRegions' = run.usedRegions
    /\ pc' = "counted"
    /\ UNCHANGED <<gridSize, solution, attempts, regions, queues, unassignedCount,
                   addedThisRound, regionIndex, attemptNumber>>
    /\ UNCHANGED playVars
    /\ UNCHANGED checkVars
    /\ UNCHANGED timerVars
    /\ UNCHANGED messageVars
    /\ UNCHANGED ivVars
    /\ UNCHANGED rcVars

NextCount == CountSolutionsCall

SpecCount == InitCount /\ [][NextCount]_vars

----------------------------------------------------------------------------
(* The puzzle in play *)

RegionMapOf(seq) == [i \in 0 .. Len(seq) - 1 |-> seq[i + 1]]

\* Puzzles as initializeGame hands them to the player: each of them is a state
\* that Spec reaches with pc = "playing" (C14_Witness, C6_Witness, C2_Witness).
PuzzleOne ==
    [gridSize |-> 1, solution |-> << Pos(0, 0) >>, regions |-> RegionMapOf(<< 0 >>)]

PuzzleA ==
    [gridSize |-> 4,
     solution |-> << Pos(0, 1), Pos(1, 3), Pos(2, 0), Pos(3, 2) >>,
     regions |-> RegionMapOf(<< 0, 0, 0, 0,
                                0, 2, 1, 1,
                                2, 2, 1, 3,
                                2, 2, 3, 3 >>)]

PuzzleB ==
    [gridSize |-> 4,
     solution |-> << Pos(0, 2), Pos(1, 0), Pos(2, 3), Pos(3, 1) >>,
     regions |-> RegionMapOf(<< 1, 1, 0, 0,
                                1, 1, 1, 0,
                                1, 3, 3, 2,
                                1, 3, 2, 2 >>)]

GeneratedPuzzles == {PuzzleOne, PuzzleA, PuzzleB}

\* the variables of the generation as initializeGame leaves them on puzzle p
AfterGeneration(p) ==
    /\ gridSize = p.gridSize
    /\ pc = "playing"
    /\ solution = p.solution
    /\ regions = p.regions
    /\ attempts = 0
    /\ queues = << >>
    /\ unassignedCount = 0
    /\ addedThisRound = FALSE
    /\ regionIndex = 0
    /\ attemptNumber = 0
    /\ solutionCount = 1
    /\ errors = << >>
    /\ csPlacedBeans = << >>
    /\ csUsedCols = {}
    /\ csUsedRegions = {}
    /\ now = 1
    /\ startTime = 1
    /\ timerInterval = 1
    /\ intervals = {1}
    /\ timerText = TimerText(1, 1)
    /\ message = NoMessage
    /\ timeouts = {<< "clearMessage", "" >>}
    /\ ivRow = NoCall /\ ivCol = NoCall /\ ivBeans = NoCall /\ ivResult = NoCall
    /\ rcRegionNumber = NoCall /\ rcResult = NoCall

\* { row, col, region: regionIndex }
Bean(row, col) == [row |-> row, col |-> col, region |-> regions[row * gridSize + col]]

----------------------------------------------------------------------------
(* handleCellClick and the automatic X markers *)

\* some(m => m.row === row && m.col === col)
HasAt(list, row, col) ==
    \E k \in DOMAIN list : list[k].row = row /\ list[k].col = col

\* findIndex(...) + 1: the first position of the cell in the list, 0 for -1
findIndex(list, row, col) ==
    IF HasAt(list, row, col)
        THEN CHOOSE k \in DOMAIN list :
                 /\ list[k].row = row /\ list[k].col = col
                 /\ \A m \in 1 .. k - 1 : ~ (list[m].row = row /\ list[m].col = col)
    ELSE 0

\* a removal that leaves the list as it is
removeAt_keepsAll(list, k) == list

\* list.splice(k - 1, 1)
removeAt(list, k) == SubSeq(list, 1, k - 1) \o SubSeq(list, k + 1, Len(list))

\* the cells in the order of the loops "for i" and "for j"
CellSeq == [k \in 1 .. gridSize * gridSize |-> Pos((k - 1) \div gridSize, (k - 1) % gridSize)]

\* an auto-fill without the test "hasManualX"
autoFillXMarkers_overManualX(beans, xs, autos, beanRow, beanCol, beanRegion) ==
    autos \o SelectSeq(CellSeq, LAMBDA p :
                 /\ ~ HasAt(beans, p.row, p.col)
                 /\ ~ HasAt(autos, p.row, p.col)
                 /\ \/ p.row = beanRow
                    \/ p.col = beanCol
                    \/ Abs(p.row - beanRow) <= 1 /\ Abs(p.col - beanCol) <= 1
                    \/ regions[CellIndex(p)] = beanRegion)

\* autoFillXMarkers(beanRow, beanCol, regionIndex), beanRegion being its third
\* argument: the list autoXMarkers after the call.  Every cell is visited once,
\* so the three "already has" tests of a cell see the lists as they are on entry.
autoFillXMarkers(beans, xs, autos, beanRow, beanCol, beanRegion) ==
    autos \o SelectSeq(CellSeq, LAMBDA p :
                 /\ ~ HasAt(beans, p.row, p.col)
                 /\ ~ HasAt(xs, p.row, p.col)
                 /\ ~ HasAt(autos, p.row, p.col)
                 /\ \/ p.row = beanRow
                    \/ p.col = beanCol
                    \/ Abs(p.row - beanRow) <= 1 /\ Abs(p.col - beanCol) <= 1
                    \/ regions[CellIndex(p)] = beanRegion)

\* a recalculation that marks for the last bean of the list only
recalculateAutoXMarkers_lastBeanOnly(beans, xs, autos, k) ==
    IF beans = << >> THEN autos
    ELSE autoFillXMarkers(beans, xs, autos, beans[Len(beans)].row,
                          beans[Len(beans)].col, beans[Len(beans)].region)

\* recalculateAutoXMarkers: beansPlaced.forEach(bean => autoFillXMarkers(...)),
\* from the bean at position k on
RECURSIVE recalculateAutoXMarkers(_, _, _, _)
recalculateAutoXMarkers(beans, xs, autos, k) ==
    IF k > Len(beans) THEN autos
    ELSE \* (the one-element set binds the new list as a value)
         CHOOSE result \in
             {recalculateAutoXMarkers(beans, xs, marked, k + 1) :
                  marked \in {autoFillXMarkers(beans, xs, autos, beans[k].row,
                                               beans[k].col, beans[k].region)}} : TRUE

\* a board that takes any number of beans
boardIsFull_never(beans) == FALSE

\* beansPlaced.length >= gridSize
boardIsFull(beans) == Len(beans) >= gridSize

\* a handler without the guard "if (!gameActive) return"
handleCellClick_ignoresGameOver(beans, xs, autos, row, col, clickType) ==
    LET beanIndex == findIndex(beans, row, col)
        xIndex == findIndex(xs, row, col)
        autoXIndex == findIndex(autos, row, col)
        same == [beansPlaced |-> beans, xMarkers |-> xs, autoXMarkers |-> autos]
    IN  IF clickType = "bean"
            THEN IF beanIndex # 0
                     THEN LET remaining == removeAt(beans, beanIndex)
                          IN  [beansPlaced |-> remaining,
                               xMarkers |-> xs,
                               autoXMarkers |->
                                   IF autoFillChecked
                                       THEN recalculateAutoXMarkers(remaining, xs, << >>, 1)
                                   ELSE << >>]
                 ELSE IF xIndex # 0 \/ autoXIndex # 0 THEN same
                 ELSE IF boardIsFull(beans) THEN same
                 ELSE LET placed == Append(beans, Bean(row, col))
                      IN  [beansPlaced |-> placed,
                           xMarkers |-> xs,
                           autoXMarkers |->
                               IF autoFillChecked
                                   THEN autoFillXMarkers(placed, xs, autos, row, col,
                                                         regions[row * gridSize + col])
                               ELSE autos]
        ELSE IF beanIndex # 0 THEN same
        ELSE IF autoXIndex # 0 THEN same
        ELSE IF xIndex # 0
            THEN [same EXCEPT !.xMarkers = removeAt(xs, xIndex)]
        ELSE [same EXCEPT !.xMarkers = Append(xs, Pos(row, col))]

\* handleCellClick(row, col, cell, clickType) in an active game: the three lists
\* after the call
handleCellClick(beans, xs, autos, row, col, clickType) ==
    LET beanIndex == findIndex(beans, row, col)
        xIndex == findIndex(xs, row, col)
        autoXIndex == findIndex(autos, row, col)
        same == [beansPlaced |-> beans, xMarkers |-> xs, autoXMarkers |-> autos]
    IN  IF ~ gameActive THEN same
        ELSE IF clickType = "bean"
            THEN IF beanIndex # 0
                     THEN LET remaining == removeAt(beans, beanIndex)
                          IN  [beansPlaced |-> remaining,
                               xMarkers |-> xs,
                               autoXMarkers |->
                                   IF autoFillChecked
                                       THEN recalculateAutoXMarkers(remaining, xs, << >>, 1)
                                   ELSE << >>]
                 ELSE IF xIndex # 0 \/ autoXIndex # 0 THEN same
                 ELSE IF boardIsFull(beans) THEN same
                 ELSE LET placed == Append(beans, Bean(row, col))
                      IN  [beansPlaced |-> placed,
                           xMarkers |-> xs,
                           autoXMarkers |->
                               IF autoFillChecked
                                   THEN autoFillXMarkers(placed, xs, autos, row, col,
                                                         regions[row * gridSize + col])
                               ELSE autos]
        ELSE IF beanIndex # 0 THEN same
        ELSE IF autoXIndex # 0 THEN same
        ELSE IF xIndex # 0
            THEN [same EXCEPT !.xMarkers = removeAt(xs, xIndex)]
        ELSE [same EXCEPT !.xMarkers = Append(xs, Pos(row, col))]

\* the message handleCellClick shows on the same arguments, if it shows one
handleCellClickMessage(beans, xs, autos, row, col, clickType) ==
    LET beanIndex == findIndex(beans, row, col)
        xIndex == findIndex(xs, row, col)
        autoXIndex == findIndex(autos, row, col)
        none == [shown |-> FALSE, text |-> << >>, type |-> ""]
        Say(text, type) == [shown |-> TRUE, text |-> text, type |-> type]
    IN  IF ~ gameActive THEN none
        ELSE IF clickType = "bean"
            THEN IF beanIndex # 0 THEN none
                 ELSE IF xIndex # 0 \/ autoXIndex # 0
                     THEN Say(<< "Remove X marker first (right-click)" >>, "info")
                 ELSE IF boardIsFull(beans)
                     THEN Say(<< "You can only place " >> \o String(gridSize)
                                  \o << " beans!" >>, "error")
                 ELSE none
        ELSE IF beanIndex # 0
            THEN Say(<< "This cell has a bean! Left-click to remove it" >>, "info")
        ELSE IF autoXIndex # 0
            THEN Say(<< "This X was placed automatically. Remove the bean causing it." >>,
                     "info")
        ELSE none

\* the cell the player right-clicks and the cells the player clicks at all: the
\* first cell of the board and the cells of the solution
MarkCells == {0}
ClickCells == {0} \cup {CellIndex(solution[k]) : k \in DOMAIN solution}

\* a left click (the listener of 'click') or a right click ('contextmenu')
HandleCellClick ==
    /\ pc = "playing"
    /\ \E cell \in ClickCells, clickType \in {"bean", "x"} :
           /\ clickType = "x" => cell \in MarkCells
           /\ LET after == handleCellClick(beansPlaced, xMarkers, autoXMarkers,
                                           cell \div gridSize, cell % gridSize, clickType)
                  said == handleCellClickMessage(beansPlaced, xMarkers, autoXMarkers,
                                                 cell \div gridSize, cell % gridSize,
                                                 clickType)
                  ui == IF said.shown
                            THEN showMessage([message |-> message, timeouts |-> timeouts],
                                             said.text, said.type)
                        ELSE [message |-> message, timeouts |-> timeouts]
              IN  /\ beansPlaced' = after.beansPlaced
                  /\ xMarkers' = after.xMarkers
                  /\ autoXMarkers' = after.autoXMarkers
                  /\ message' = ui.message
                  /\ timeouts' = ui.timeouts
    /\ UNCHANGED <<gridSize, pc, solution, gameActive>>
    /\ UNCHANGED genVars
    /\ UNCHANGED checkVars
    /\ UNCHANGED csVars
    /\ UNCHANGED timerVars
    /\ UNCHANGED ivVars
    /\ UNCHANGED rcVars

\* the player ticks or unticks the checkbox
ToggleAutoFill ==
    /\ pc = "playing"
    /\ autoFillChecked' = ~ autoFillChecked
    /\ UNCHANGED <<gridSize, pc, solution, errors>>
    /\ UNCHANGED genVars
    /\ UNCHANGED playVars
    /\ UNCHANGED csVars
    /\ UNCHANGED timerVars
    /\ UNCHANGED messageVars
    /\ UNCHANGED ivVars
    /\ UNCHANGED rcVars

----------------------------------------------------------------------------
(* clearBoard, showSolution and the button New Game *)

\* a clearBoard that resets the puzzle as well
ClearBoard_forgetsSolution ==
    /\ pc = "playing"
    /\ beansPlaced' = << >>
    /\ xMarkers' = << >>
    /\ autoXMarkers' = << >>
    /\ solution' = << >>
    /\ LET ui == hideMessage([message |-> message, timeouts |-> timeouts])
       IN  /\ message' = ui.message
           /\ timeouts' = ui.timeouts
    /\ UNCHANGED <<gridSize, pc, gameActive>>
    /\ UNCHANGED genVars
    /\ UNCHANGED checkVars
    /\ UNCHANGED csVars
    /\ UNCHANGED timerVars
    /\ UNCHANGED ivVars
    /\ UNCHANGED rcVars

\* a clearBoard that begins with "if (!gameActive) return"
ClearBoard_onlyInPlay ==
    /\ pc = "playing"
    /\ IF ~ gameActive
           THEN UNCHANGED <<beansPlaced, xMarkers, autoXMarkers, message, timeouts>>
       ELSE /\ beansPlaced' = << >>
            /\ xMarkers' = << >>
            /\ autoXMarkers' = << >>
            /\ LET ui == hideMessage([message |-> message, timeouts |-> timeouts])
               IN  /\ message' = ui.message
                   /\ timeouts' = ui.timeouts
    /\ UNCHANGED <<gridSize, pc, solution, gameActive>>
    /\ UNCHANGED genVars
    /\ UNCHANGED checkVars
    /\ UNCHANGED csVars
    /\ UNCHANGED timerVars
    /\ UNCHANGED ivVars
    /\ UNCHANGED rcVars

ClearBoard ==
    /\ pc = "playing"
    /\ beansPlaced' = << >>
    /\ xMarkers' = << >>
    /\ autoXMarkers' = << >>
    /\ LET ui == hideMessage([message |-> message, timeouts |-> timeouts])
       IN  /\ message' = ui.message
           /\ timeouts' = ui.timeouts
    /\ UNCHANGED <<gridSize, pc, solution, gameActive>>
    /\ UNCHANGED genVars
    /\ UNCHANGED checkVars
    /\ UNCHANGED csVars
    /\ UNCHANGED timerVars
    /\ UNCHANGED ivVars
    /\ UNCHANGED rcVars

\* a showSolution without its call of clearBoard()
ShowSolution_keepsBoard ==
    /\ pc = "playing"
    /\ Len(solution) # 0
    /\ beansPlaced' = beansPlaced \o [k \in DOMAIN solution |->
                                         Bean(solution[k].row, solution[k].col)]
    /\ gameActive' = FALSE
    /\ intervals' = clearInterval(intervals, timerInterval)
    /\ LET ui == showMessage([message |-> message, timeouts |-> timeouts],
                             << "Solution revealed! Click \"New Game\" to try another puzzle." >>,
                             "info")
       IN  /\ message' = ui.message
           /\ timeouts' = ui.timeouts
    /\ UNCHANGED <<gridSize, pc, solution, xMarkers, autoXMarkers>>
    /\ UNCHANGED genVars
    /\ UNCHANGED checkVars
    /\ UNCHANGED csVars
    /\ UNCHANGED <<now, startTime, timerInterval, timerText>>
    /\ UNCHANGED ivVars
    /\ UNCHANGED rcVars

\* showSolution: nothing without a solution; else clearBoard(), the beans of the
\* solution are pushed, and the game ends
ShowSolution ==
    /\ pc = "playing"
    /\ IF Len(solution) = 0
           THEN /\ UNCHANGED playVars
                /\ UNCHANGED intervals
                /\ LET ui == showMessage([message |-> message, timeouts |-> timeouts],
                                         << "No solution available. Start a new game!" >>,
                                         "error")
                   IN  /\ message' = ui.message
                       /\ timeouts' = ui.timeouts
       ELSE /\ beansPlaced' = [k \in DOMAIN solution |->
                                   Bean(solution[k].row, solution[k].col)]
            /\ xMarkers' = << >>
            /\ autoXMarkers' = << >>
            /\ gameActive' = FALSE
            /\ intervals' = clearInterval(intervals, timerInterval)
            /\ LET cleared == hideMessage([message |-> message, timeouts |-> timeouts])
                   ui == showMessage(cleared,
                                     << "Solution revealed! Click \"New Game\" to try another puzzle." >>,
                                     "info")
               IN  /\ message' = ui.message
                   /\ timeouts' = ui.timeouts
    /\ UNCHANGED <<gridSize, pc, solution>>
    /\ UNCHANGED genVars
    /\ UNCHANGED checkVars
    /\ UNCHANGED csVars
    /\ UNCHANGED <<now, startTime, timerInterval, timerText>>
    /\ UNCHANGED ivVars
    /\ UNCHANGED rcVars

\* a New Game that leaves the X markers of the old game
NewGame_keepsMarkers ==
    /\ pc = "playing"
    /\ gameActive' = TRUE
    /\ beansPlaced' = << >>
    /\ \E p \in GeneratedPuzzles :
           /\ p.gridSize = gridSize
           /\ solution' = p.solution
           /\ regions' = p.regions
    /\ solutionCount' = 1
    /\ UNCHANGED <<gridSize, pc, attempts, queues, unassignedCount, addedThisRound,
                   regionIndex, attemptNumber, xMarkers, autoXMarkers>>
    /\ startTime' = now
    /\ LET stopped == IF timerInterval # Null
                          THEN clearInterval(intervals, timerInterval)
                      ELSE intervals
           id == NewIntervalId(stopped, timerInterval)
       IN  /\ timerInterval' = id
           /\ intervals' = stopped \cup {id}
    /\ LET ui == hideMessage([message |-> message, timeouts |-> timeouts])
       IN  /\ message' = ui.message
           /\ timeouts' = ui.timeouts
    /\ UNCHANGED checkVars
    /\ UNCHANGED csVars
    /\ UNCHANGED <<now, timerText>>
    /\ UNCHANGED ivVars
    /\ UNCHANGED rcVars

\* a New Game without "if (timerInterval) clearInterval(timerInterval)"
NewGame_keepsInterval ==
    /\ pc = "playing"
    /\ gameActive' = TRUE
    /\ beansPlaced' = << >>
    /\ xMarkers' = << >>
    /\ autoXMarkers' = << >>
    /\ \E p \in GeneratedPuzzles :
           /\ p.gridSize = gridSize
           /\ solution' = p.solution
           /\ regions' = p.regions
    /\ solutionCount' = 1
    /\ UNCHANGED <<gridSize, pc, attempts, queues, unassignedCount, addedThisRound,
                   regionIndex, attemptNumber>>
    /\ startTime' = now
    /\ LET stopped == intervals
           id == NewIntervalId(stopped, timerInterval)
       IN  /\ timerInterval' = id
           /\ intervals' = stopped \cup {id}
    /\ LET ui == hideMessage([message |-> message, timeouts |-> timeouts])
       IN  /\ message' = ui.message
           /\ timeouts' = ui.timeouts
    /\ UNCHANGED checkVars
    /\ UNCHANGED csVars
    /\ UNCHANGED <<now, timerText>>
    /\ UNCHANGED ivVars
    /\ UNCHANGED rcVars

\* the button New Game, a run of initializeGame from its first line to its
\* last: the reset of lines 50-53, then a puzzle as the pipeline generates it
NewGame ==
    /\ pc = "playing"
    /\ gameActive' = TRUE
    /\ beansPlaced' = << >>
    /\ xMarkers' = << >>
    /\ autoXMarkers' = << >>
    /\ \E p \in GeneratedPuzzles :
           /\ p.gridSize = gridSize
           /\ solution' = p.solution
           /\ regions' = p.regions
    /\ solutionCount' = 1
    /\ UNCHANGED <<gridSize, pc, attempts, queues, unassignedCount, addedThisRound,
                   regionIndex, attemptNumber>>
    /\ startTime' = now
    /\ LET stopped == IF timerInterval # Null
                          THEN clearInterval(intervals, timerInterval)
                      ELSE intervals
           id == NewIntervalId(stopped, timerInterval)
       IN  /\ timerInterval' = id
           /\ intervals' = stopped \cup {id}
    /\ LET ui == hideMessage([message |-> message, timeouts |-> timeouts])
       IN  /\ message' = ui.message
           /\ timeouts' = ui.timeouts
    /\ UNCHANGED checkVars
    /\ UNCHANGED csVars
    /\ UNCHANGED <<now, timerText>>
    /\ UNCHANGED ivVars
    /\ UNCHANGED rcVars

\* the page has loaded and initializeGame has handed over its first puzzle
InitPlay ==
    /\ \E p \in {PuzzleOne, PuzzleA} : AfterGeneration(p)
    /\ beansPlaced = << >>
    /\ xMarkers = << >>
    /\ autoXMarkers = << >>
    /\ gameActive = TRUE
    /\ autoFillChecked = TRUE

----------------------------------------------------------------------------
(* checkSolution *)

\* a checkSolution without the guard on the number of beans
CheckSolution_checksIncomplete ==
    /\ pc = "playing"
    /\ IF ~ gameActive
           THEN UNCHANGED <<pc, errors>>
       ELSE /\ errors' = checkSolutionErrors(beansPlaced, regions)
            /\ pc' = "checkSolution"
    /\ UNCHANGED <<gridSize, solution, autoFillChecked>>
    /\ UNCHANGED genVars
    /\ UNCHANGED playVars
    /\ UNCHANGED csVars
    /\ UNCHANGED timerVars
    /\ UNCHANGED messageVars
    /\ UNCHANGED ivVars
    /\ UNCHANGED rcVars

\* lines 780-843: the two guards, then the four rules fill the list errors
CheckSolution ==
    /\ pc = "playing"
    /\ IF ~ gameActive
           THEN UNCHANGED <<pc, errors, message, timeouts>>
       ELSE IF Len(beansPlaced) # gridSize
           THEN /\ UNCHANGED <<pc, errors>>
                /\ LET ui == showMessage([message |-> message, timeouts |-> timeouts],
                                         << "Place all " >> \o String(gridSize)
                                             \o << " beans first!" >>,
                                         "error")
                   IN  /\ message' = ui.message
                       /\ timeouts' = ui.timeouts
       ELSE /\ errors' = checkSolutionErrors(beansPlaced, regions)
            /\ pc' = "checkSolution"
            /\ UNCHANGED <<message, timeouts>>
    /\ UNCHANGED <<gridSize, solution, autoFillChecked>>
    /\ UNCHANGED genVars
    /\ UNCHANGED playVars
    /\ UNCHANGED csVars
    /\ UNCHANGED timerVars
    /\ UNCHANGED ivVars
    /\ UNCHANGED rcVars

\* lines 845-862: success ends the game, errors leave it as it is; the list
\* errors is a local of the call that returns here
CheckSolutionVerdict ==
    /\ pc = "checkSolution"
    /\ gameActive' = IF Len(errors) = 0 THEN FALSE ELSE gameActive
    /\ intervals' = IF Len(errors) = 0 THEN clearInterval(intervals, timerInterval)
                    ELSE intervals
    /\ LET before == [message |-> message, timeouts |-> timeouts]
           ui == IF Len(errors) = 0
                     THEN showMessage(before,
                                      << "Congratulations! You solved the puzzle!" >>,
                                      "success")
                 ELSE showMessage(before,
                                  << "Found " >> \o String(Len(errors))
                                      \o << " error(s). Keep trying!" >>,
                                  "error")
       IN  /\ message' = ui.message
           /\ timeouts' = ui.timeouts
    /\ errors' = << >>
    /\ pc' = "playing"
    /\ UNCHANGED <<gridSize, solution, autoFillChecked, beansPlaced, xMarkers,
                   autoXMarkers>>
    /\ UNCHANGED genVars
    /\ UNCHANGED csVars
    /\ UNCHANGED <<now, startTime, timerInterval, timerText>>
    /\ UNCHANGED ivVars
    /\ UNCHANGED rcVars

\* Check Solution pressed on a full board: every list of gridSize beans on
\* distinct cells, which the player places with the checkbox unchecked
FullBoards ==
    {beans \in [1 .. gridSize -> Cells] :
         \A k, m \in 1 .. gridSize : k # m => beans[k] # beans[m]}

InitCheck ==
    /\ \E p \in GeneratedPuzzles : AfterGeneration(p)
    /\ \E cells \in FullBoards :
           beansPlaced = [k \in 1 .. gridSize |->
                             Bean(cells[k] \div gridSize, cells[k] % gridSize)]
    /\ xMarkers = << >>
    /\ autoXMarkers = << >>
    /\ gameActive = TRUE
    /\ autoFillChecked = FALSE

NextCheck ==
    \/ CheckSolution
    \/ CheckSolutionVerdict

SpecCheck == InitCheck /\ [][NextCheck]_vars

----------------------------------------------------------------------------
(* The callbacks of showMessage and hideMessage *)

\* showMessage, lines 997-1001: the callback of one call runs; it hides the
\* message unless that call showed a success
AutoHideTimeout ==
    /\ pc = "playing"
    /\ \E t \in timeouts :
           /\ t[1] = "autoHide"
           /\ LET rest == [message |-> message, timeouts |-> timeouts \ {t}]
                  ui == IF t[2] # "success" THEN hideMessage(rest) ELSE rest
              IN  /\ message' = ui.message
                  /\ timeouts' = ui.timeouts
    /\ UNCHANGED <<gridSize, pc, solution>>
    /\ UNCHANGED genVars
    /\ UNCHANGED playVars
    /\ UNCHANGED checkVars
    /\ UNCHANGED csVars
    /\ UNCHANGED timerVars
    /\ UNCHANGED ivVars
    /\ UNCHANGED rcVars

\* hideMessage, lines 1009-1012: the callback empties the message line
ClearMessageTimeout ==
    /\ pc = "playing"
    /\ << "clearMessage", "" >> \in timeouts
    /\ message' = NoMessage
    /\ timeouts' = timeouts \ {<< "clearMessage", "" >>}
    /\ UNCHANGED <<gridSize, pc, solution>>
    /\ UNCHANGED genVars
    /\ UNCHANGED playVars
    /\ UNCHANGED checkVars
    /\ UNCHANGED csVars
    /\ UNCHANGED timerVars
    /\ UNCHANGED ivVars
    /\ UNCHANGED rcVars

\* no callback of the message line is pending
MessageSettled == timeouts = {}

----------------------------------------------------------------------------
(* The player's session: every handler of the page, in any order.  The      *)
(* player presses a button or clicks a cell once the message line has       *)
(* settled; a handler that has begun runs to its end.                       *)

NextPlay ==
    \/ MessageSettled /\ HandleCellClick
    \/ MessageSettled /\ ToggleAutoFill
    \/ MessageSettled /\ CheckSolution
    \/ CheckSolutionVerdict
    \/ MessageSettled /\ ClearBoard
    \/ MessageSettled /\ ShowSolution
    \/ MessageSettled /\ NewGame
    \/ AutoHideTimeout
    \/ ClearMessageTimeout

SpecPlay == InitPlay /\ [][NextPlay]_vars

----------------------------------------------------------------------------
(* Left clicks alone, on any cell, the checkbox ticked as the page loads it *)

InitAutoFill ==
    /\ \E p \in GeneratedPuzzles : AfterGeneration(p)
    /\ beansPlaced = << >>
    /\ xMarkers = << >>
    /\ autoXMarkers = << >>
    /\ gameActive = TRUE
    /\ autoFillChecked = TRUE

\* cell.addEventListener('click', ...): handleCellClick(row, col, cell, 'bean')
HandleLeftClick ==
    /\ pc = "playing"
    /\ \E cell \in Cells :
           LET after == handleCellClick(beansPlaced, xMarkers, autoXMarkers,
                                        cell \div gridSize, cell % gridSize, "bean")
               said == handleCellClickMessage(beansPlaced, xMarkers, autoXMarkers,
                                              cell \div gridSize, cell % gridSize, "bean")
               ui == IF said.shown
                         THEN showMessage([message |-> message, timeouts |-> timeouts],
                                          said.text, said.type)
                     ELSE [message |-> message, timeouts |-> timeouts]
           IN  /\ beansPlaced' = after.beansPlaced
               /\ xMarkers' = after.xMarkers
               /\ autoXMarkers' = after.autoXMarkers
               /\ message' = ui.message
               /\ timeouts' = ui.timeouts
    /\ UNCHANGED <<gridSize, pc, solution, gameActive>>
    /\ UNCHANGED genVars
    /\ UNCHANGED checkVars
    /\ UNCHANGED csVars
    /\ UNCHANGED timerVars
    /\ UNCHANGED ivVars
    /\ UNCHANGED rcVars

NextAutoFill ==
    \/ MessageSettled /\ HandleLeftClick
    \/ AutoHideTimeout
    \/ ClearMessageTimeout

SpecAutoFill == InitAutoFill /\ [][NextAutoFill]_vars

----------------------------------------------------------------------------
(* The timer: the page from its load on, with the clock running.  The board *)
(* has one cell, which keeps the clock's values within reach; no line of    *)
(* the timer reads the board.                                               *)

\* time passes
Tick ==
    /\ now < MaxClock
    /\ now' = now + 1
    /\ UNCHANGED <<gridSize, pc, solution>>
    /\ UNCHANGED genVars
    /\ UNCHANGED playVars
    /\ UNCHANGED checkVars
    /\ UNCHANGED csVars
    /\ UNCHANGED <<startTime, timerInterval, intervals, timerText>>
    /\ UNCHANGED messageVars
    /\ UNCHANGED ivVars
    /\ UNCHANGED rcVars

\* an active interval calls updateTimer; the browser runs the callback between
\* two handlers, at no time it promises
UpdateTimer ==
    /\ pc = "playing"
    /\ intervals # {}
    /\ timerText' = IF startTime = Null THEN timerText
                    ELSE TimerText(now, startTime)
    /\ UNCHANGED <<gridSize, pc, solution>>
    /\ UNCHANGED genVars
    /\ UNCHANGED playVars
    /\ UNCHANGED checkVars
    /\ UNCHANGED csVars
    /\ UNCHANGED <<now, startTime, timerInterval, intervals>>
    /\ UNCHANGED messageVars
    /\ UNCHANGED ivVars
    /\ UNCHANGED rcVars

TimerBoardSizes == {1}

InitTimer ==
    /\ Init
    /\ gridSize \in TimerBoardSizes

\* the steps of the page load that a board of one cell takes, the handlers of
\* the player, the callbacks and the clock
NextTimer ==
    \/ InitializeGame
    \/ SolutionAttempt
    \/ SolutionReturn
    \/ RegionsEnter
    \/ GrowthLoop
    \/ VerifyRegions
    \/ UniquenessLoop
    \/ StartGame
    \/ MessageSettled /\ HandleCellClick
    \/ MessageSettled /\ ToggleAutoFill
    \/ MessageSettled /\ CheckSolution
    \/ CheckSolutionVerdict
    \/ MessageSettled /\ ClearBoard
    \/ MessageSettled /\ ShowSolution
    \/ MessageSettled /\ NewGame
    \/ AutoHideTimeout
    \/ ClearMessageTimeout
    \/ Tick
    \/ UpdateTimer

SpecTimer == InitTimer /\ [][NextTimer]_vars

----------------------------------------------------------------------------
(* Properties *)

Touching(p, q) == Abs(p.row - q.row) <= 1 /\ Abs(p.col - q.col) <= 1

\* generateValidSolution has returned
SolutionGenerated == pc \notin {"load", "generateValidSolution"}

\* generateRegionsFromSolution has returned to initializeGame
RegionsReturned == pc \in {"countSolutions", "createBoard", "playing"}

\* initializeGame has left its loop: the puzzle goes to createBoard
Accepted == pc \in {"createBoard", "playing"}

Adjacent4(i, j) ==
    \/ (i \div gridSize) = (j \div gridSize) /\ Abs((i % gridSize) - (j % gridSize)) = 1
    \/ (i % gridSize) = (j % gridSize) /\ Abs((i \div gridSize) - (j \div gridSize)) = 1

\* the cells of region r that can be reached from the set S through
\* horizontally or vertically adjacent cells of region r
RECURSIVE Reach4(_, _, _)
Reach4(regs, r, S) ==
    LET T == S \cup {j \in Cells : regs[j] = r /\ \E i \in S : Adjacent4(i, j)}
    IN  IF T = S THEN S ELSE Reach4(regs, r, T)

FourConnected(regs, r) ==
    LET cellsOfR == {i \in Cells : regs[i] = r}
    IN  \A i \in cellsOfR : Reach4(regs, r, {i}) = cellsOfR

\* C1: once generateValidSolution has returned, the solution has exactly
\* gridSize positions, exactly one in every row and one in every column, and no
\* two of its positions have row distance <= 1 and column distance <= 1.
C1_SolutionValid ==
    SolutionGenerated =>
        /\ Len(solution) = gridSize
        /\ \A r \in Rows : Cardinality({k \in DOMAIN solution : solution[k].row = r}) = 1
        /\ \A c \in Rows : Cardinality({k \in DOMAIN solution : solution[k].col = c}) = 1
        /\ \A k, m \in DOMAIN solution : k # m => ~ Touching(solution[k], solution[m])

\* a 4x4 solution that only a successful random attempt produces
C1_Witness ==
    /\ SolutionGenerated
    /\ gridSize = 4
    /\ solution = << Pos(0, 2), Pos(1, 0), Pos(2, 3), Pos(3, 1) >>

\* C2: on every puzzle initializeGame hands to createBoard, countSolutions on
\* the final region map returns exactly 1.
C2_AcceptedCountIsOne == Accepted => countSolutions(regions) = 1

\* an accepted 4x4 puzzle with regions of unequal size
C2_Witness ==
    /\ pc = "playing"
    /\ gridSize = 4
    /\ solutionCount = 1
    /\ \E r \in Rows : Cardinality({i \in Cells : regions[i] = r}) >= 6
    /\ solution = << Pos(0, 2), Pos(1, 0), Pos(2, 3), Pos(3, 1) >>
    /\ regions = RegionMapOf(<< 1, 1, 0, 0,  1, 1, 1, 0,  1, 3, 3, 2,  1, 3, 2, 2 >>)

\* C3: on every accepted puzzle each region is 4-connected; a partition with a
\* split region is never the region map initializeGame ends up with.
C3_AcceptedRegionsConnected ==
    Accepted => \A r \in Rows : FourConnected(regions, r)

\* C4: once the regions are seeded, and after every return of
\* generateRegionsFromSolution, the cell of solution[i] carries region id i and
\* no other solution cell carries it.
C4_OneSolutionCellPerRegion ==
    (pc \in {"growthLoop", "regionTurn", "verifyRegions"} \/ RegionsReturned) =>
        \A i \in Rows :
            {k \in DOMAIN solution : regions[CellIndex(solution[k])] = i} = {i + 1}

\* the call has returned on a 4x4 board on which region 0 has grown past its seed
C4_Witness ==
    /\ pc = "countSolutions"
    /\ gridSize = 4
    /\ Cardinality({i \in Cells : regions[i] = 0}) >= 3

\* C5: after every return of generateRegionsFromSolution the region map is
\* total: every cell has an id in 0..gridSize-1, none is -1, and every id occurs.
C5_RegionMapTotal ==
    RegionsReturned =>
        /\ DOMAIN regions = Cells
        /\ \A i \in Cells : regions[i] \in Rows
        /\ \A r \in Rows : \E i \in Cells : regions[i] = r

\* a return through the depth guard: the map left in place is one that the stall
\* fill completed and that the connectivity check rejected
C5_Witness ==
    /\ pc = "countSolutions"
    /\ gridSize = 4
    /\ \E r \in Rows : ~ FourConnected(regions, r)

\* the placements of gridSize beans on distinct cells, as lists in row-major order
RECURSIVE SortedCells(_)
SortedCells(S) ==
    IF S = {} THEN << >>
    ELSE LET least == CHOOSE i \in S : \A j \in S : i <= j
         IN  << Pos(least \div gridSize, least % gridSize) >> \o SortedCells(S \ {least})

Reverse(seq) == [k \in DOMAIN seq |-> seq[Len(seq) + 1 - k]]

FullPlacements == {S \in SUBSET Cells : Cardinality(S) = gridSize}

\* C6: on every accepted puzzle a placement of gridSize beans passes
\* checkSolution (no error collected) if and only if its set of positions is the
\* set of solution positions; each placement is tried in row-major order and in
\* the reverse order.
C6_OnlyTheSolutionPasses ==
    pc = "playing" =>
        \A S \in FullPlacements :
            LET beans == SortedCells(S)
            IN  /\ checkSolutionErrors(beans, regions) = << >> <=> Range(beans) = Range(solution)
                /\ checkSolutionErrors(Reverse(beans), regions) = << >>
                       <=> Range(beans) = Range(solution)

\* an accepted 4x4 puzzle on which the other placement that satisfies the row,
\* column and touching rules is rejected by the region rule alone
C6_Witness ==
    /\ pc = "playing"
    /\ gridSize = 4
    /\ solution = << Pos(0, 1), Pos(1, 3), Pos(2, 0), Pos(3, 2) >>
    /\ regions = RegionMapOf(<< 0, 0, 0, 0,  0, 2, 1, 1,  2, 2, 1, 3,  2, 2, 3, 3 >>)
    /\ LET other == << Pos(0, 2), Pos(1, 0), Pos(2, 3), Pos(3, 1) >>
           found == checkSolutionErrors(other, regions)
       IN  /\ found # << >>
           /\ \A k \in DOMAIN found : found[k].rule = "region"

\* C7: for every generated puzzle, the generated solution placed as the
\* player's beans collects no error in checkSolution against the puzzle's own
\* region map.
C7_SolutionPassesCheck ==
    RegionsReturned => checkSolutionErrors(solution, regions) = << >>

\* an accepted 4x4 puzzle: its solution as the beans collects no error, and
\* moving the bean of row 0 one column to the left collects errors
C7_Witness ==
    /\ pc = "playing"
    /\ gridSize = 4
    /\ solution = << Pos(0, 1), Pos(1, 3), Pos(2, 0), Pos(3, 2) >>
    /\ checkSolutionErrors(solution, regions) = << >>
    /\ checkSolutionErrors([solution EXCEPT ![1] = Pos(0, 0)], regions) # << >>

\* C8: puzzle generation always returns: the loop of initializeGame eventually
\* reaches a region map with exactly one solution and exits.
C8_GenerationTerminates == <>(pc = "playing")

\* C9: within one run of initializeGame the solution is not changed once
\* generateValidSolution has returned, whatever countSolutions returns.
C9_SolutionNeverRegenerated ==
    [][SolutionGenerated => solution' = solution]_vars

\* the loop has just rejected a region map and is about to regenerate it
C9_Witness ==
    /\ pc = "generateRegions"
    /\ gridSize = 4
    /\ solutionCount = 2
    /\ regions # << >>

\* C10: isValidPlacement(row, col, existingBeans) returns false if and only if
\* some existing bean has row distance <= 1 and column distance <= 1 to
\* (row, col); the call changes neither its arguments nor any game state.
C10_IsValidPlacementContract ==
    [][IsValidPlacementCall =>
          /\ ivResult' = (~ \E k \in DOMAIN ivBeans :
                               /\ Abs(ivBeans[k].row - ivRow) <= 1
                               /\ Abs(ivBeans[k].col - ivCol) <= 1)
          /\ UNCHANGED <<ivRow, ivCol, ivBeans, solution, regions, beansPlaced,
                         xMarkers, autoXMarkers, gameActive>>]_vars

\* a call that returned false because of the first of two beans, an exact duplicate
C10_Witness ==
    /\ pc = "returned"
    /\ ivResult = FALSE
    /\ Len(ivBeans) = 2
    /\ ivBeans[1] = Pos(ivRow, ivCol)
    /\ ~ Touching(ivBeans[2], Pos(ivRow, ivCol))

\* the choices of one column per row, as functions row -> column, that use
\* pairwise distinct columns and put no two beans on touching cells
ColumnChoices ==
    [n \in CountBoardSizes |->
        {f \in [0 .. n - 1 -> 0 .. n - 1] :
            \A r1, r2 \in 0 .. n - 1 :
                r1 # r2 => /\ f[r1] # f[r2]
                           /\ ~ Touching(Pos(r1, f[r1]), Pos(r2, f[r2]))}]

\* k: the number of those choices whose beans lie in pairwise distinct regions
PlacementCount(regs) ==
    Cardinality({f \in ColumnChoices[gridSize] :
                    \A r1, r2 \in Rows :
                        r1 # r2 => regs[r1 * gridSize + f[r1]] # regs[r2 * gridSize + f[r2]]})

Min(a, b) == IF a < b THEN a ELSE b

\* C11: for every total region map, countSolutions returns min(2, k), k being
\* the number of placements of one bean per row with pairwise distinct columns,
\* pairwise distinct regions and no two touching beans; the result is 0, 1 or 2.
C11_CountIsCappedNumberOfPlacements ==
    [][CountSolutionsCall =>
          /\ solutionCount' = Min(maxSolutions, PlacementCount(regions))
          /\ solutionCount' \in {0, 1, 2}]_vars

\* a call that returned 2 on a 5x5 map with more than two such placements
C11_Witness ==
    /\ pc = "counted"
    /\ gridSize = 5
    /\ solutionCount = 2
    /\ PlacementCount(regions) > 2

\* C12: a call of countSolutions leaves the stored solution, the region map and
\* the player's state (beansPlaced, xMarkers, autoXMarkers, gameActive) as they
\* are, and when it returns placedBeans, usedCols and usedRegions are empty.
C12_CountSolutionsFrame ==
    [][CountSolutionsCall =>
          /\ UNCHANGED <<solution, regions, beansPlaced, xMarkers, autoXMarkers,
                         gameActive>>
          /\ csPlacedBeans' = << >>
          /\ csUsedCols' = {}
          /\ csUsedRegions' = {}]_vars

\* a search that was cut short at the second placement found, and one that ran
\* to the end after finding one
C12_Witness ==
    /\ pc = "counted"
    /\ solutionCount \in {1, 2}
    /\ PlacementCount(regions) = solutionCount
    /\ solution # << >>

\* C13: generateValidSolution always returns; it never makes more than
\* maxAttempts attempts; when it returns with the last attempt incomplete, the
\* solution becomes the fallback pattern, and on the program's 8x8 board that
\* pattern has 8 positions with distinct rows, distinct columns and no two touching.
C13_SolutionGenerationTerminates ==
    /\ [](attempts <= maxAttempts)
    /\ <>(pc = "generateRegions")
    /\ [][(SolutionReturn /\ Len(solution) # gridSize) =>
             /\ solution' = generateFallbackSolution
             /\ gridSize = 8 =>
                    /\ Len(solution') = 8
                    /\ \A k, m \in DOMAIN solution' :
                           k # m => /\ solution'[k].row # solution'[m].row
                                    /\ solution'[k].col # solution'[m].col
                                    /\ ~ Touching(solution'[k], solution'[m])
                    /\ \A k \in DOMAIN solution' : InBounds(solution'[k])]_vars

\* the 8x8 call has returned the fallback pattern: no sampled order leads to it,
\* so all the attempts have failed
C13_Witness ==
    /\ pc = "generateRegions"
    /\ gridSize = 8
    /\ solution = validPattern

\* C14: on the 1x1 board the run of initializeGame reaches the end of the
\* pipeline, with the solution [(0,0)], the single cell in region 0 and a
\* solution count of 1: neither the growth loop nor a retry loop keeps it.
C14_SingleCellBoardTerminates ==
    (gridSize = 1) =>
        <>(/\ pc = "playing"
           /\ solution = << Pos(0, 0) >>
           /\ regions = [i \in {0} |-> 0]
           /\ solutionCount = 1)

\* the 1x1 puzzle as initializeGame hands it to the player
C14_Witness ==
    /\ gridSize = 1
    /\ pc = "playing"
    /\ gameActive
    /\ solution = << Pos(0, 0) >>
    /\ regions[0] = 0
    /\ solutionCount = 1
    /\ unassignedCount = 0

\* the violations of a list of errors: a row, a column or a region by its
\* number, a touching pair by its two cells without order
Violations(errs) ==
    {[rule |-> errs[k].rule,
      cells |-> IF errs[k].rule = "touching"
                    THEN {CellIndex(errs[k].a), CellIndex(errs[k].b)}
                ELSE {errs[k].a}] : k \in DOMAIN errs}

\* the violations of the four rules by the beans, stated on the set of beans
RuleViolations(beans, regs) ==
    LET placed == Range(beans)
    IN  {[rule |-> "row", cells |-> {i}] :
             i \in {i \in Rows : Cardinality({b \in placed : b.row = i}) # 1}}
        \cup {[rule |-> "column", cells |-> {j}] :
                  j \in {j \in Rows : Cardinality({b \in placed : b.col = j}) # 1}}
        \cup {[rule |-> "region", cells |-> {r}] :
                  r \in {r \in Rows :
                            Cardinality({b \in placed : regs[CellIndex(b)] = r}) # 1}}
        \cup {[rule |-> "touching", cells |-> {CellIndex(pair[1]), CellIndex(pair[2])}] :
                  pair \in {pr \in placed \X placed :
                                pr[1] # pr[2] /\ Touching(pr[1], pr[2])}}

\* C15: checkSolution on gridSize placed beans collects exactly one error for
\* every row, column and region whose number of beans is not 1 and one for every
\* unordered pair of touching beans, and nothing else; it ends the game as
\* solved if and only if there is no such violation.
C15_CheckReportsEveryViolation ==
    [][/\ (CheckSolution /\ pc' = "checkSolution") =>
              /\ Violations(errors') = RuleViolations(beansPlaced, regions)
              /\ Len(errors') = Cardinality(RuleViolations(beansPlaced, regions))
       /\ CheckSolutionVerdict =>
              (gameActive' = FALSE <=> RuleViolations(beansPlaced, regions) = {})]_vars

\* beans on (0,0) and (0,3): an error for row 0, none for the two of them touching
C15_Witness ==
    /\ pc = "checkSolution"
    /\ gridSize = 4
    /\ \E k, m \in DOMAIN beansPlaced :
           /\ CellIndex(beansPlaced[k]) = 0
           /\ CellIndex(beansPlaced[m]) = 3
    /\ [rule |-> "row", cells |-> {0}] \in Violations(errors)
    /\ [rule |-> "touching", cells |-> {0, 3}] \notin Violations(errors)
    /\ \E v \in Violations(errors) : v.rule = "touching"

\* the beans in row-major order of their cells
RECURSIVE SortedBeans(_)
SortedBeans(S) ==
    IF S = {} THEN << >>
    ELSE LET least == CHOOSE b \in S : \A other \in S : CellIndex(b) <= CellIndex(other)
         IN  << least >> \o SortedBeans(S \ {least})

\* C16: the verdict and the set of violations of checkSolution are those of the
\* same beans placed in row-major order, so they are the same for every order
\* of placing them; a check that finds errors changes nothing of the game, so
\* repeating it gives the same result.
C16_CheckIsOrderIndependent ==
    [][/\ (CheckSolution /\ pc' = "checkSolution") =>
              LET sorted == checkSolutionErrors(SortedBeans(Range(beansPlaced)), regions)
              IN  /\ Violations(errors') = Violations(sorted)
                  /\ Len(errors') = Len(sorted)
                  /\ UNCHANGED <<beansPlaced, xMarkers, autoXMarkers, gameActive,
                                 solution, regions>>
       /\ (CheckSolutionVerdict /\ errors # << >>) =>
              /\ UNCHANGED <<beansPlaced, xMarkers, autoXMarkers, gameActive,
                             solution, regions>>
              /\ pc' = "playing"]_vars

\* the rules have run on beans placed against the row-major order: a touching
\* pair is reported with the later cell first
C16_Witness ==
    /\ pc = "checkSolution"
    /\ gridSize = 4
    /\ \E k \in DOMAIN errors :
           /\ errors[k].rule = "touching"
           /\ CellIndex(errors[k].a) > CellIndex(errors[k].b)

\* C17: a cell click, a change of the checkbox, Check Solution, Show Solution
\* and Clear Board leave the region map and the solution as they are; only New
\* Game replaces them.
C17_PuzzleFixedBetweenNewGames ==
    [][(\/ HandleCellClick
        \/ ToggleAutoFill
        \/ CheckSolution
        \/ CheckSolutionVerdict
        \/ ClearBoard
        \/ ShowSolution) => UNCHANGED <<regions, solution>>]_vars

\* the solution was shown and the board cleared after it; the puzzle is still there
C17_Witness ==
    /\ pc = "playing"
    /\ ~ gameActive
    /\ beansPlaced = << >>
    /\ solution = PuzzleA.solution
    /\ regions = PuzzleA.regions

\* in the state at hand a left click on any cell puts a bean on it
ClicksPlaceBeans ==
    \A cell \in Cells :
        LET row == cell \div gridSize
            col == cell % gridSize
            after == handleCellClick(beansPlaced, xMarkers, autoXMarkers, row, col, "bean")
        IN  HasAt(after.beansPlaced, row, col)

\* C18: whatever the state New Game is pressed in, when initializeGame has
\* completed beansPlaced, xMarkers and autoXMarkers are empty, gameActive is
\* true, and a left click on a cell places a bean.
C18_NewGameStartsAfresh ==
    [][NewGame =>
          /\ beansPlaced' = << >>
          /\ xMarkers' = << >>
          /\ autoXMarkers' = << >>
          /\ gameActive' = TRUE
          /\ ClicksPlaceBeans']_vars

\* the second puzzle, which only New Game brings, with a bean placed on it
C18_Witness ==
    /\ pc = "playing"
    /\ solution = PuzzleB.solution
    /\ regions = PuzzleB.regions
    /\ gameActive
    /\ Len(beansPlaced) >= 1

\* n left clicks in a row on the cell (row, col)
RECURSIVE LeftClicks(_, _, _, _)
LeftClicks(board, row, col, n) ==
    IF n = 0 THEN board
    ELSE CHOOSE result \in
             {LeftClicks(after, row, col, n - 1) :
                  after \in {handleCellClick(board.beansPlaced, board.xMarkers,
                                             board.autoXMarkers, row, col, "bean")}} : TRUE

Board == [beansPlaced |-> beansPlaced, xMarkers |-> xMarkers, autoXMarkers |-> autoXMarkers]

\* C19: in an active game, two and four left clicks in a row on a cell that
\* holds no bean leave that cell without a bean and the set of placed beans as
\* it was before the clicks.
C19_EvenClicksRestoreBeans ==
    (pc = "playing" /\ gameActive) =>
        \A cell \in Cells :
            LET row == cell \div gridSize
                col == cell % gridSize
            IN  ~ HasAt(beansPlaced, row, col) =>
                    \A n \in {2, 4} :
                        LET after == LeftClicks(Board, row, col, n)
                        IN  /\ ~ HasAt(after.beansPlaced, row, col)
                            /\ Range(after.beansPlaced) = Range(beansPlaced)

\* beans and automatic X markers are on the board, and there is a free cell on
\* which the first click places a bean and the second takes it away
C19_Witness ==
    /\ pc = "playing"
    /\ gameActive
    /\ autoFillChecked
    /\ beansPlaced # << >>
    /\ autoXMarkers # << >>
    /\ \E cell \in Cells :
           LET row == cell \div gridSize
               col == cell % gridSize
           IN  /\ ~ HasAt(beansPlaced, row, col)
               /\ HasAt(LeftClicks(Board, row, col, 1).beansPlaced, row, col)
               /\ LeftClicks(Board, row, col, 2).beansPlaced = beansPlaced

\* C20: beansPlaced never holds more than gridSize beans nor two beans on one
\* cell, and with gridSize beans placed a left click on a cell without a bean
\* changes nothing.
C20_AtMostGridSizeBeans ==
    /\ Len(beansPlaced) <= gridSize
    /\ \A k, m \in DOMAIN beansPlaced :
           k # m => CellIndex(beansPlaced[k]) # CellIndex(beansPlaced[m])
    /\ (pc = "playing" /\ Len(beansPlaced) = gridSize) =>
           \A cell \in Cells :
               LET row == cell \div gridSize
                   col == cell % gridSize
               IN  ~ HasAt(beansPlaced, row, col) =>
                       handleCellClick(beansPlaced, xMarkers, autoXMarkers, row, col, "bean")
                           = Board

\* four beans placed by the player in an active 4x4 game, and a cell with
\* neither a bean nor an X marker left to click on
C20_Witness ==
    /\ pc = "playing"
    /\ gameActive
    /\ gridSize = 4
    /\ Len(beansPlaced) = gridSize
    /\ \E cell \in ClickCells :
           LET row == cell \div gridSize
               col == cell % gridSize
           IN  /\ ~ HasAt(beansPlaced, row, col)
               /\ ~ HasAt(xMarkers, row, col)
               /\ ~ HasAt(autoXMarkers, row, col)

\* the cells a list of beans or markers lies on
CellsOf(list) == {CellIndex(list[k]) : k \in DOMAIN list}

\* C21: no cell holds a bean and an X marker, nor a manual and an automatic X:
\* beansPlaced, xMarkers and autoXMarkers are pairwise disjoint as sets of cells
\* in every state of the session.  A right click on a cell with a bean leaves
\* the beans as they are, and a left click on a cell with an X places no bean.
C21_BeansAndMarkersDisjoint ==
    /\ CellsOf(beansPlaced) \cap CellsOf(xMarkers) = {}
    /\ CellsOf(beansPlaced) \cap CellsOf(autoXMarkers) = {}
    /\ CellsOf(xMarkers) \cap CellsOf(autoXMarkers) = {}
    /\ \A cell \in Cells :
           LET row == cell \div gridSize
               col == cell % gridSize
               left == handleCellClick(beansPlaced, xMarkers, autoXMarkers, row, col, "bean")
               right == handleCellClick(beansPlaced, xMarkers, autoXMarkers, row, col, "x")
           IN  /\ HasAt(beansPlaced, row, col) =>
                      /\ right.beansPlaced = beansPlaced
                      /\ right.xMarkers = xMarkers
                      /\ right.autoXMarkers = autoXMarkers
               /\ HasAt(xMarkers, row, col) \/ HasAt(autoXMarkers, row, col) =>
                      /\ left.beansPlaced = beansPlaced
                      /\ left.xMarkers = xMarkers
                      /\ left.autoXMarkers = autoXMarkers

\* an active game with a manual X on a cell in the row of a bean that was placed
\* with the checkbox checked: the auto-fill passed over the manual X
C21_Witness ==
    /\ pc = "playing"
    /\ gameActive
    /\ gridSize = 4
    /\ autoXMarkers # << >>
    /\ \E k \in DOMAIN xMarkers, m \in DOMAIN beansPlaced :
           xMarkers[k].row = beansPlaced[m].row

\* the text showSolution leaves on the message line
SolutionRevealed == << "Solution revealed! Click \"New Game\" to try another puzzle." >>

\* C22: when showSolution returns, the placed beans are exactly the positions of
\* the solution (gridSize beans, one in every row and one in every column), no
\* manual and no automatic X is left, and gameActive is false.
C22_ShowSolutionRevealsTheSolution ==
    [][ShowSolution =>
          /\ Len(beansPlaced') = gridSize
          /\ \A k \in DOMAIN beansPlaced' :
                 /\ beansPlaced'[k].row = solution[k].row
                 /\ beansPlaced'[k].col = solution[k].col
          /\ \A i \in Rows :
                 /\ Cardinality({k \in DOMAIN beansPlaced' : beansPlaced'[k].row = i}) = 1
                 /\ Cardinality({k \in DOMAIN beansPlaced' : beansPlaced'[k].col = i}) = 1
          /\ xMarkers' = << >>
          /\ autoXMarkers' = << >>
          /\ gameActive' = FALSE]_vars

\* the solution of a 4x4 puzzle has just been revealed
C22_Witness ==
    /\ pc = "playing"
    /\ gridSize = 4
    /\ ~ gameActive
    /\ message.text = SolutionRevealed
    /\ "show" \in message.classes
    /\ CellsOf(beansPlaced) = CellsOf(solution)
    /\ xMarkers = << >>
    /\ autoXMarkers = << >>

\* the text checkSolution leaves on the message line when it finds no error
Congratulations == << "Congratulations! You solved the puzzle!" >>

\* C23: while gameActive is false (after Show Solution or a successful check) a
\* left click or a right click on any cell leaves beansPlaced, xMarkers and
\* autoXMarkers as they are, and a step of handleCellClick or of checkSolution
\* changes nothing at all.
C23_NoPlayWhenGameOver ==
    [][(pc = "playing" /\ ~ gameActive) =>
          /\ \A cell \in Cells, clickType \in {"bean", "x"} :
                 LET row == cell \div gridSize
                     col == cell % gridSize
                     after == handleCellClick(beansPlaced, xMarkers, autoXMarkers,
                                              row, col, clickType)
                     said == handleCellClickMessage(beansPlaced, xMarkers, autoXMarkers,
                                                    row, col, clickType)
                 IN  /\ after.beansPlaced = beansPlaced
                     /\ after.xMarkers = xMarkers
                     /\ after.autoXMarkers = autoXMarkers
                     /\ ~ said.shown
          /\ (HandleCellClick \/ CheckSolution) => UNCHANGED vars]_vars

\* a solved 4x4 puzzle: the game is over, the board has cells without bean or X
C23_Witness ==
    /\ pc = "playing"
    /\ gridSize = 4
    /\ ~ gameActive
    /\ message.text = Congratulations
    /\ Len(beansPlaced) = gridSize
    /\ \E cell \in Cells :
           LET row == cell \div gridSize
               col == cell % gridSize
           IN  /\ ~ HasAt(beansPlaced, row, col)
               /\ ~ HasAt(xMarkers, row, col)
               /\ ~ HasAt(autoXMarkers, row, col)

\* C24: after Show Solution and after a successful Check Solution the timer is
\* stopped: no interval is active while the game is over, and the displayed
\* time stays as it is at every step until New Game starts the next game.
C24_TimerStopsAtGameOver ==
    /\ []((pc = "playing" /\ ~ gameActive) => intervals = {})
    /\ [][(pc = "playing" /\ ~ gameActive /\ ~ gameActive') =>
              timerText' = timerText]_vars

\* a solved puzzle on which the clock has run on since the check: a tick would
\* now write another time than the one displayed
C24_Witness ==
    /\ pc = "playing"
    /\ ~ gameActive
    /\ message.text = Congratulations
    /\ startTime # Null
    /\ timerText # TimerText(now, startTime)
    /\ timerText # TimerText(startTime, startTime)

\* C25: New Game resets the timer: once initializeGame has completed, the time
\* displayed is an elapsed time of the game in play (00:00 at its start, then
\* what a tick of this game wrote), never the time reached in the game before.
C25_TimerResetByNewGame ==
    (pc = "playing" /\ gameActive) =>
        \E clock \in startTime .. now : timerText = TimerText(clock, startTime)

\* C26: checkSolution called in an active game with fewer than gridSize beans
\* (none included) shows the error "Place all N beans first!" and does nothing
\* else: it evaluates no rule, gameActive stays true, the interval of the timer
\* stays active and beansPlaced, like every other variable, is unchanged.
C26_IncompleteBoardIsRejected ==
    [][(CheckSolution /\ gameActive /\ Len(beansPlaced) < gridSize) =>
          /\ message'.text = << "Place all " >> \o String(gridSize) \o << " beans first!" >>
          /\ message'.classes = {"message", "show", "error"}
          /\ pc' = "playing"
          /\ errors' = << >>
          /\ gameActive'
          /\ timerInterval' \in intervals'
          /\ UNCHANGED <<gridSize, solution, regions, beansPlaced, xMarkers,
                         autoXMarkers, gameActive, autoFillChecked, solutionCount,
                         now, startTime, timerInterval, intervals, timerText>>]_vars

\* a 4x4 board one bean short on which Check Solution has just been refused
C26_Witness ==
    /\ pc = "playing"
    /\ gridSize = 4
    /\ gameActive
    /\ Len(beansPlaced) = gridSize - 1
    /\ message.text = << "Place all ", "4", " beans first!" >>
    /\ "show" \in message.classes
    /\ << "autoHide", "error" >> \in timeouts

\* C27: clearBoard empties beansPlaced, xMarkers and autoXMarkers in whatever
\* state it is called, a finished game included, and leaves the region map,
\* the solution and gameActive as they are.
C27_ClearBoardFrame ==
    /\ [](pc = "playing" =>
             ENABLED (/\ ClearBoard
                      /\ beansPlaced' = << >>
                      /\ xMarkers' = << >>
                      /\ autoXMarkers' = << >>))
    /\ [][ClearBoard =>
             /\ beansPlaced' = << >>
             /\ xMarkers' = << >>
             /\ autoXMarkers' = << >>
             /\ UNCHANGED <<gridSize, regions, solution, gameActive>>]_vars

\* Clear Board has just been pressed on the finished game of the 4x4 puzzle
\* PuzzleB: the board is empty, the game still over, and the callback of
\* hideMessage is pending
C27_Witness ==
    /\ pc = "playing"
    /\ ~ gameActive
    /\ solution = PuzzleB.solution
    /\ regions = PuzzleB.regions
    /\ beansPlaced = << >>
    /\ xMarkers = << >>
    /\ autoXMarkers = << >>
    /\ timeouts = {<< "clearMessage", "" >>}

\* the positions of a call of generateRegionsFromSolution
InRegionsCall == pc \in {"generateRegions", "growthLoop", "regionTurn", "verifyRegions"}

\* What is left of the partition attempt at hand, as a number: the cells still
\* to assign (one more while the round at hand has claimed a cell, which is what
\* lets the loop start another round), then the position within the round.
AttemptRank ==
    LET width == gridSize + 3
    IN  CASE pc = "generateRegions" -> gridSize * gridSize * width
          [] pc = "growthLoop" -> unassignedCount * width + gridSize + 2
          [] pc = "regionTurn" ->
                 (unassignedCount + (IF addedThisRound THEN 1 ELSE 0)) * width
                     + gridSize + 1 - regionIndex
          [] OTHER -> 0

\* ... of the whole top-level call: the attempts the depth guard still allows
\* come first
CallRank ==
    (maxRegenerationAttempts - attemptNumber) * (gridSize * gridSize * (gridSize + 3) + 1)
        + AttemptRank

\* C28: a top-level call of generateRegionsFromSolution terminates (every step
\* of the call lowers CallRank, which never falls below 0) and seeds at most 10
\* partitions (a partition is only built at depth 0..9), each from the same,
\* unchanged solution; when the 10th partition has a disconnected region, the
\* call at depth 10 returns and leaves that partition as the region map.
C28_RegionGenerationTerminates ==
    /\ [](InRegionsCall =>
             /\ CallRank >= 0
             /\ attemptNumber <= maxRegenerationAttempts
             /\ pc # "generateRegions" => attemptNumber < maxRegenerationAttempts)
    /\ [][InRegionsCall =>
             /\ solution' = solution
             /\ InRegionsCall' => CallRank' < CallRank
             /\ (pc = "generateRegions" /\ pc' = "growthLoop") =>
                    \A k \in DOMAIN solution : regions'[CellIndex(solution[k])] = k - 1
             /\ (pc = "verifyRegions" /\ pc' = "generateRegions") =>
                    /\ attemptNumber' = attemptNumber + 1
                    /\ regions' = regions
             /\ (pc = "generateRegions" /\ attemptNumber >= maxRegenerationAttempts) =>
                    /\ regions' = regions
                    /\ pc' = "countSolutions"]_vars

\* the call has returned through the depth guard: the map it leaves to
\* countSolutions has a region in two pieces
C28_Witness ==
    /\ pc = "countSolutions"
    /\ gridSize = 4
    /\ \A i \in Cells : regions[i] \in Rows
    /\ \E r \in Rows : ~ isRegionConnected(regions, r)

\* C29: in the growth phase a region has one turn per round (its index only
\* goes up within a round) and claims at most one cell in it, the cell it claims
\* was unassigned and gets that region's id, and from the seeding to the end of
\* the attempt no assigned cell (seed cells included) changes its region id.
C29_GrowthClaimsOneFreeCell ==
    /\ [][(pc = "regionTurn" /\ regionIndex < gridSize) =>
             /\ regionIndex' = regionIndex + 1
             /\ Cardinality({i \in Cells : regions'[i] # regions[i]}) <= 1
             /\ \A i \in Cells :
                    regions'[i] # regions[i] =>
                        /\ regions[i] = -1
                        /\ regions'[i] = regionIndex]_vars
    /\ [][(pc \in {"growthLoop", "regionTurn", "verifyRegions"}) =>
             (\A i \in Cells : regions[i] # -1 => regions'[i] = regions[i])]_vars

\* the end of the first round on the 4x4 board, each of the four regions having
\* claimed its one cell
C29_Witness ==
    /\ pc = "regionTurn"
    /\ gridSize = 4
    /\ regionIndex = gridSize
    /\ addedThisRound
    /\ unassignedCount = gridSize * gridSize - 2 * gridSize
    /\ \A r \in Rows : Cardinality({i \in Cells : regions[i] = r}) = 2

\* the Chebyshev distance of two cells given by their indexes
Chebyshev(i, j) ==
    LET dr == (i \div gridSize) - (j \div gridSize)
        dc == (i % gridSize) - (j % gridSize)
        absR == IF dr < 0 THEN -dr ELSE dr
        absC == IF dc < 0 THEN -dc ELSE dc
    IN  IF absR > absC THEN absR ELSE absC

\* the cells that hold a region id when the stall fill reaches cell i: those
\* assigned before the fill and those the pass has already gone over
AssignedWhenFilling(i) ==
    {j \in Cells \ {i} : regions[j] # -1 \/ j < i}

\* C30: at the end of a round that claimed nothing (cells being still
\* unassigned), the stall fill gives each unassigned cell the region id of an
\* assigned cell at the least Chebyshev distance from it, the cells filled
\* earlier in the pass counting as assigned; after it no cell is unassigned, the
\* count is 0 and the growth loop is left.
C30_StallFillTakesNearestRegion ==
    [][(pc = "regionTurn" /\ regionIndex >= gridSize /\ ~ addedThisRound) =>
          /\ \A i \in Cells :
                 regions[i] = -1 =>
                     \E j \in AssignedWhenFilling(i) :
                         /\ regions'[i] = regions'[j]
                         /\ \A other \in AssignedWhenFilling(i) :
                                Chebyshev(i, j) <= Chebyshev(i, other)
          /\ \A i \in Cells : regions'[i] \in Rows
          /\ unassignedCount' = 0
          /\ pc' = "verifyRegions"]_vars

\* a 4x4 map just after a stall fill: the round before claimed nothing, the
\* growth loop is left and every cell has a region
C30_Witness ==
    /\ pc = "verifyRegions"
    /\ gridSize = 4
    /\ ~ addedThisRound
    /\ unassignedCount = 0
    /\ \A i \in Cells : regions[i] \in Rows

\* C31: isRegionConnected(r) is true exactly when the cells labelled r are none,
\* one, or such that each is reachable from each other through horizontally or
\* vertically adjacent cells of the region; the call leaves the map as it was.
C31_IsRegionConnectedIsFourConnectivity ==
    /\ [](pc = "connectedReturned" =>
             rcResult = FourConnected(regions, rcRegionNumber))
    /\ [][pc = "isRegionConnected()" => regions' = regions]_vars

\* the call has answered false for a region that meets itself only at a corner,
\* and true for a region that bends to the left of its first cell
C31_Witness ==
    /\ pc = "connectedReturned"
    /\ gridSize = 3
    /\ \/ /\ rcResult = FALSE
          /\ {i \in Cells : regions[i] = rcRegionNumber} = {0, 4}
       \/ /\ rcResult = TRUE
          /\ {i \in Cells : regions[i] = rcRegionNumber} = {1, 3, 4}

\* the solution as a placement on the region map regs: one bean in every row,
\* in every column and in every region, no two beans touching
SolutionSatisfiesRules(regs) ==
    /\ Len(solution) = gridSize
    /\ \A r \in Rows : \E k \in DOMAIN solution : solution[k].row = r
    /\ \A c \in Rows : \E k \in DOMAIN solution : solution[k].col = c
    /\ \A g \in Rows : \E k \in DOMAIN solution : regs[CellIndex(solution[k])] = g
    /\ \A k, m \in DOMAIN solution : k # m => ~ Touching(solution[k], solution[m])

\* C32: whenever initializeGame calls countSolutions, the solution is a
\* placement that satisfies the four rules on the region map at hand, and the
\* call returns 1 or 2, never 0.
C32_CountIsNeverZero ==
    /\ [](pc = "countSolutions" => SolutionSatisfiesRules(regions))
    /\ [][pc = "countSolutions" => solutionCount' \in {1, 2}]_vars

\* a count of 2 on a 4x4 map has just sent the loop back to the regions
C32_Witness ==
    /\ pc = "generateRegions"
    /\ gridSize = 4
    /\ attemptNumber = 0
    /\ solutionCount = 2
    /\ SolutionSatisfiesRules(regions)

\* the growth loop has ended on its own condition, "unassignedCount > 0" being
\* false, and not through the break after the stall fill (which leaves
\* addedThisRound false on a board with cells to assign)
GrowthEndedWithoutStallFill ==
    /\ pc = "verifyRegions"
    /\ addedThisRound \/ gridSize = 1

\* C33: a cell claimed in a growth turn is horizontally or vertically adjacent
\* to a cell that already has the claiming region's id; every region is
\* 4-connected throughout the growth phase; an attempt that ends without the
\* stall fill has only connected regions and returns without regenerating.
C33_GrowthKeepsRegionsConnected ==
    /\ [][(pc = "regionTurn" /\ regionIndex < gridSize) =>
             \A i \in Cells :
                 regions'[i] # regions[i] =>
                     \E j \in Cells : regions[j] = regionIndex /\ Adjacent4(i, j)]_vars
    /\ []((pc \in {"growthLoop", "regionTurn"} \/ GrowthEndedWithoutStallFill) =>
             \A r \in Rows : FourConnected(regions, r))
    /\ [][GrowthEndedWithoutStallFill =>
             /\ \A r \in Rows : isRegionConnected(regions, r)
             /\ pc' = "countSolutions"
             /\ regions' = regions]_vars

\* a 4x4 map that growth alone has completed
C33_Witness ==
    /\ pc = "verifyRegions"
    /\ gridSize = 4
    /\ addedThisRound
    /\ unassignedCount = 0
    /\ \A i \in Cells : regions[i] \in Rows

\* the cell has an unassigned cell above, below, left or right of it
HasUnassignedNeighbor(i) ==
    \E j \in Cells : Adjacent4(i, j) /\ regions[j] = -1

\* C34: in the growth phase every queue holds at most one cell; a turn that
\* takes from the queue a cell with no unassigned neighbour leaves the queue
\* empty; and a region whose queue is empty keeps an empty queue and claims no
\* cell in any later turn of the growth phase.
C34_QueuesHoldAtMostOneCell ==
    /\ [](pc \in {"growthLoop", "regionTurn"} =>
             \A r \in Rows : Len(queues[r]) <= 1)
    /\ [][(pc = "regionTurn" /\ regionIndex < gridSize) =>
             /\ (/\ queues[regionIndex] # << >>
                 /\ ~ HasUnassignedNeighbor(CellIndex(Head(queues[regionIndex])))) =>
                    queues'[regionIndex] = << >>
             /\ \A r \in Rows :
                    queues[r] = << >> =>
                        /\ queues'[r] = << >>
                        /\ \A i \in Cells : regions'[i] = r => regions[i] = r]_vars
    /\ [][(pc \in {"growthLoop", "regionTurn"} /\ pc' \in {"growthLoop", "regionTurn"}) =>
             \A r \in Rows : queues[r] = << >> => queues'[r] = << >>]_vars

\* a region has run out of queue while one of its cells still has an
\* unassigned neighbour, and the round at hand has passed it by
C34_Witness ==
    /\ pc = "regionTurn"
    /\ gridSize = 4
    /\ \E r \in Rows :
           /\ r < regionIndex
           /\ queues[r] = << >>
           /\ \E i \in Cells : regions[i] = r /\ HasUnassignedNeighbor(i)
           /\ \E other \in Rows : queues[other] # << >>

\* the bean forbids the cell: same row, same column, same region, or touching
Forbids(bean, i) ==
    \/ bean.row = (i \div gridSize)
    \/ bean.col = (i % gridSize)
    \/ regions[CellIndex(bean)] = regions[i]
    \/ Abs(bean.row - (i \div gridSize)) <= 1 /\ Abs(bean.col - (i % gridSize)) <= 1

\* C35: with the checkbox ticked and no manual X marker, after any sequence of
\* left clicks in an active game the automatic X markers are exactly the
\* bean-free cells that a placed bean forbids, and so any two placed beans are
\* in different rows, columns and regions and do not touch.
C35_AutoMarkersAreTheForbiddenCells ==
    (pc = "playing" /\ gameActive /\ autoFillChecked /\ xMarkers = << >>) =>
        /\ CellsOf(autoXMarkers) =
               {i \in Cells \ CellsOf(beansPlaced) :
                   \E k \in DOMAIN beansPlaced : Forbids(beansPlaced[k], i)}
        /\ \A k, m \in DOMAIN beansPlaced :
               k # m =>
                   /\ beansPlaced[k].row # beansPlaced[m].row
                   /\ beansPlaced[k].col # beansPlaced[m].col
                   /\ regions[CellIndex(beansPlaced[k])] # regions[CellIndex(beansPlaced[m])]
                   /\ ~ Touching(beansPlaced[k], beansPlaced[m])

\* two beans are left on the 4x4 board after a third was placed and taken away
\* (the markers have been recalculated), and a click on a marked cell has been
\* turned down
C35_Witness ==
    /\ gridSize = 4
    /\ Len(beansPlaced) = 2
    /\ beansPlaced[1].row > beansPlaced[2].row
    /\ autoXMarkers # << >>
    /\ Cardinality(CellsOf(autoXMarkers)) < gridSize * gridSize - 2
    /\ "show" \in message.classes

\* C36: while gameActive is false, a step that does not start a new game
\* (gameActive stays false) leaves the set of cells with a bean as it is.
C36_BoardFrozenAfterGameOver ==
    [][(pc = "playing" /\ ~ gameActive /\ ~ gameActive') =>
          CellsOf(beansPlaced') = CellsOf(beansPlaced)]_vars

\* C37: at most one interval is active at any time, the one timerInterval
\* names; a step that starts an interval leaves no earlier interval active.
C37_AtMostOneInterval ==
    /\ [](/\ Cardinality(intervals) <= 1
          /\ intervals # {} => intervals = {timerInterval})
    /\ [][\A id \in intervals' \ intervals : intervals' = {id}]_vars

\* New Game was clicked while the interval of the game before was running: the
\* second interval is the only one active
C37_Witness ==
    /\ pc = "playing"
    /\ gameActive
    /\ timerInterval = 2
    /\ intervals = {2}
    /\ now > startTime

====
